---- MODULE Spec2Model ----
(***************************************************************************)
(* Model of the watch-dog analytics core:                                  *)
(*   - calculateRollingAggregation (rollup-calculator.js), the rolling     *)
(*     window aggregator;                                                  *)
(*   - analyzeThresholdBreaches (analyse-monitor.js), the breach detector; *)
(*   - calculateStatistics, the volatility score of combineHighResData,    *)
(*     the breach display of analyseMonitor and generateRecommendations    *)
(*     (analyse-monitor.js);                                               *)
(*   - parseMonitorQuery (rollup-calculator.js) and                        *)
(*     extractRollupAndInterval (analyse-monitor.js), the query parsers.   *)
(* The functions are pure; each is an operator computed as the code        *)
(* computes it, and an action applies it to inputs drawn from bounded      *)
(* sets.  Numbers are exact: an average is kept as the fraction            *)
(* sum / count, a duration as the fraction milliseconds / 60000.           *)
(***************************************************************************)
EXTENDS Integers, Sequences, FiniteSets, TLC

VARIABLES
    dataPoints,      \* argument of calculateRollingAggregation: [isNull, items]
    aggArgs,         \* the other arguments of the call
    aggPc,           \* "ready" | "returned" | "threw"
    rollingData,     \* the array the call returned
    aggError,        \* the message of the Error the call threw, "" if none
    timeSeriesData,  \* argument of analyzeThresholdBreaches: [{timestamp, value}]
    breachArgs,      \* the other arguments: thresholds, isHighBad
    breachPc,        \* "ready" | "returned"
    breaches,        \* the breaches array the call returned
    breachStats,     \* the stats object the call returned
    monitor,         \* what getMonitorConfig returned: [options, thresholds]
    stats,           \* combinedData.stats
    volatilityScore, \* combinedData.volatilityScore
    dedupedBreaches, \* the breaches analyseMonitor shows
    recommendations, \* what generateRecommendations returned
    analysisPc,      \* "ready" | "combined" | "reported" | "failed" | "recommended"
    query,           \* monitor.query: [isNull, text], text a sequence of characters
    queryInfo,       \* what parseMonitorQuery returned
    parsePc,         \* "ready" | "returned"
    rollupInfo,      \* what extractRollupAndInterval returned
    rollupPc         \* "ready" | "returned" | "threw"

aggVars == <<dataPoints, aggArgs, aggPc, rollingData, aggError>>
breachVars == <<timeSeriesData, breachArgs, breachPc, breaches, breachStats>>
analysisVars ==
    <<monitor, stats, volatilityScore, dedupedBreaches, recommendations, analysisPc>>
queryVars == <<query, queryInfo, parsePc, rollupInfo, rollupPc>>
vars == <<aggVars, breachVars, analysisVars, queryVars>>

(***************************************************************************)
(* Bounds of the model.                                                    *)
(***************************************************************************)
MaxSamples == 4      \* longest sample list drawn in one order per multiset
MaxShuffled == 3     \* longest sample list drawn in every order
MaxTime == 2         \* sample timestamps are 0..MaxTime
MaxPoints == 5       \* longest series given to the breach detector
MaxWindowed == 4     \* longest rolling window series of an analysis run
MaxSummarised == 2   \* longest series the drawn statistics are computed from
MaxQuiet == 12       \* longest stretch of points below the threshold between excursions

(***************************************************************************)
(* Values of a sample: a number, or one of the three values the            *)
(* aggregator drops.  The dropped value a sample may carry rotates with    *)
(* its timestamp (null, undefined, NaN, null, ...), so that all three      *)
(* occur, also together in one window.                                     *)
(***************************************************************************)
Num(n) == [k |-> "number", n |-> n]
NullValue == [k |-> "null", n |-> 0]
UndefinedValue == [k |-> "undefined", n |-> 0]
NaNValue == [k |-> "NaN", n |-> 0]

NumberValues == {1, 2}
DroppedValueAt(t) ==
    CASE t % 3 = 0 -> NullValue
      [] t % 3 = 1 -> UndefinedValue
      [] t % 3 = 2 -> NaNValue
Timestamps == 0..MaxTime
SampleValuesAt(t) == {DroppedValueAt(t)} \cup {Num(n) : n \in NumberValues}
Samples == UNION {{[timestamp |-> t, value |-> v] : v \in SampleValuesAt(t)} : t \in Timestamps}

\* Parameter values the call is tried with (valid and invalid ones).
WindowSizes == {0, 1, 2}
StepSizes == {0, 1, 2}
Aggregations == {"avg", "sum", "min", "max", "count", "median"}

(***************************************************************************)
(* Helpers on sequences and fractions.                                     *)
(***************************************************************************)
RECURSIVE SumSeq(_)
SumSeq(s) == IF s = <<>> THEN 0 ELSE Head(s) + SumSeq(Tail(s))

RECURSIVE MinSeq(_)
MinSeq(s) ==
    IF Len(s) = 1 THEN s[1]
    ELSE LET m == MinSeq(Tail(s)) IN IF s[1] < m THEN s[1] ELSE m

RECURSIVE MaxSeq(_)
MaxSeq(s) ==
    IF Len(s) = 1 THEN s[1]
    ELSE LET m == MaxSeq(Tail(s)) IN IF s[1] > m THEN s[1] ELSE m

Frac(num, den) == [num |-> num, den |-> den]

\* Comparison and difference of two numbers kept as fractions (den > 0).
Less(a, b) == a.num * b.den < b.num * a.den
AtMost(a, b) == a.num * b.den <= b.num * a.den
SameNumber(a, b) == a.num * b.den = b.num * a.den
Minus(a, b) ==
    IF a.den = b.den THEN Frac(a.num - b.num, a.den)
    ELSE Frac(a.num * b.den - b.num * a.den, a.den * b.den)

\* Variant: the list is left in its input order.
SortByTimestampSkipped(s) == s

\* Array.prototype.sort((a, b) => a.timestamp - b.timestamp): a stable sort.
\* The place of s[i] in the sorted array: after the points of a smaller
\* timestamp and the earlier points of the same timestamp.
PlaceByTimestamp(s, i) ==
    1 + Cardinality({j \in 1..Len(s) :
                        \/ s[j].timestamp < s[i].timestamp
                        \/ s[j].timestamp = s[i].timestamp /\ j < i})

SortByTimestamp(s) ==
    LET placed == {<<PlaceByTimestamp(s, i), i>> : i \in 1..Len(s)}
    IN  SubSeq([k \in 1..Len(s) |-> s[CHOOSE i \in 1..Len(s) : <<k, i>> \in placed]],
               1, Len(s))

(***************************************************************************)
(* calculateRollingAggregation.                                            *)
(***************************************************************************)
ValidAggregations == {"avg", "sum", "min", "max", "count"}

\* v !== null && v !== undefined && !isNaN(v)
IsValidValue(v) == v.k # "null" /\ v.k # "undefined" /\ v.k # "NaN"

\* Variant: the left edge of the window taken as inclusive.
InWindowInclusive(point, windowStart, windowEnd) ==
    point.timestamp >= windowStart /\ point.timestamp <= windowEnd

\* point.timestamp > windowStart && point.timestamp <= windowEnd
InWindow(point, windowStart, windowEnd) ==
    point.timestamp > windowStart /\ point.timestamp <= windowEnd

WindowPoints(sortedData, windowStart, windowEnd) ==
    SelectSeq(sortedData, LAMBDA point : InWindow(point, windowStart, windowEnd))

\* Variant: either condition alone skips the window.
SparseWindowEither(windowPoints, windowStart, windowEnd) ==
    LET windowSpan == windowEnd - windowStart
        dataSpan == windowPoints[Len(windowPoints)].timestamp - windowPoints[1].timestamp
    IN  4 * dataSpan < windowSpan \/ Len(windowPoints) < 3

\* dataSpan < windowSpan * 0.25 && windowPoints.length < 3
SparseWindow(windowPoints, windowStart, windowEnd) ==
    LET windowSpan == windowEnd - windowStart
        dataSpan == windowPoints[Len(windowPoints)].timestamp - windowPoints[1].timestamp
    IN  4 * dataSpan < windowSpan /\ Len(windowPoints) < 3

\* Variant: the values are not filtered.
ValidValuesUnfiltered(windowPoints) ==
    [i \in 1..Len(windowPoints) |-> windowPoints[i].value.n]

\* windowPoints.map(p => p.value).filter(valid), as numbers
ValidValues(windowPoints) ==
    LET kept == SelectSeq(windowPoints, LAMBDA p : IsValidValue(p.value))
    IN  [i \in 1..Len(kept) |-> kept[i].value.n]

\* the switch over the aggregation kind
AggregatedValue(aggregation, values) ==
    CASE aggregation = "avg" -> Frac(SumSeq(values), Len(values))
      [] aggregation = "sum" -> Frac(SumSeq(values), 1)
      [] aggregation = "min" -> Frac(MinSeq(values), 1)
      [] aggregation = "max" -> Frac(MaxSeq(values), 1)
      [] aggregation = "count" -> Frac(Len(values), 1)

\* One pass of the loop body at cursor currentTime: the points it pushes
\* (none or one).
WindowResult(sortedData, currentTime, windowSizeMs, aggregation, discardIncompleteWindows) ==
    LET windowStart == currentTime - windowSizeMs
        windowEnd == currentTime
        windowPoints == WindowPoints(sortedData, windowStart, windowEnd)
        values == ValidValues(windowPoints)
    IN  IF Len(windowPoints) = 0 THEN <<>>
        ELSE IF discardIncompleteWindows /\ SparseWindow(windowPoints, windowStart, windowEnd)
        THEN <<>>
        ELSE IF Len(values) = 0 THEN <<>>
        ELSE << [timestamp |-> currentTime,
                 value |-> AggregatedValue(aggregation, values),
                 windowStart |-> windowStart,
                 windowEnd |-> windowEnd,
                 dataPointsInWindow |-> Len(values)] >>

\* for (currentTime = startTime; currentTime <= lastTimestamp; currentTime += stepSizeMs)
RECURSIVE RollingLoop(_, _, _, _, _, _, _)
RollingLoop(sortedData, currentTime, lastTimestamp, windowSizeMs, stepSizeMs, aggregation, discardIncompleteWindows) ==
    IF currentTime > lastTimestamp THEN <<>>
    ELSE WindowResult(sortedData, currentTime, windowSizeMs, aggregation,
                      discardIncompleteWindows)
         \o RollingLoop(sortedData, currentTime + stepSizeMs, lastTimestamp, windowSizeMs,
                        stepSizeMs, aggregation, discardIncompleteWindows)

Threw(message) == [threw |-> TRUE, error |-> message, value |-> <<>>]
Returned(value) == [threw |-> FALSE, error |-> "", value |-> value]

\* Variant: the start is not moved by the window size.
StartTimeAtFirst(firstTimestamp, windowSizeMs, discardIncompleteWindows) == firstTimestamp

StartTime(firstTimestamp, windowSizeMs, discardIncompleteWindows) ==
    IF discardIncompleteWindows THEN firstTimestamp + windowSizeMs ELSE firstTimestamp

\* the checks that come first: the message of the Error thrown, "" if none
ParameterError(windowSizeMs, stepSizeMs, aggregation) ==
    IF windowSizeMs <= 0 \/ stepSizeMs <= 0
    THEN "Window size and step size must be positive"
    ELSE IF aggregation \notin ValidAggregations
    THEN "Invalid aggregation type. Must be one of: avg, sum, min, max, count"
    ELSE ""

\* the body after the checks, for a list that is not empty
RollingOf(points, windowSizeMs, stepSizeMs, aggregation, discardIncompleteWindows) ==
    LET sortedData == SortByTimestamp(points.items)
        firstTimestamp == sortedData[1].timestamp
        lastTimestamp == sortedData[Len(sortedData)].timestamp
        startTime == StartTime(firstTimestamp, windowSizeMs, discardIncompleteWindows)
    IN  RollingLoop(sortedData, startTime, lastTimestamp, windowSizeMs, stepSizeMs,
                    aggregation, discardIncompleteWindows)

\* Variant: the empty-input check comes before the parameter checks.
calculateRollingAggregationEmptyFirst(points, windowSizeMs, stepSizeMs, aggregation, discardIncompleteWindows) ==
    IF points.isNull \/ Len(points.items) = 0
    THEN Returned(<<>>)
    ELSE IF ParameterError(windowSizeMs, stepSizeMs, aggregation) # ""
    THEN Threw(ParameterError(windowSizeMs, stepSizeMs, aggregation))
    ELSE Returned(RollingOf(points, windowSizeMs, stepSizeMs, aggregation,
                            discardIncompleteWindows))

calculateRollingAggregation(points, windowSizeMs, stepSizeMs, aggregation, discardIncompleteWindows) ==
    IF ParameterError(windowSizeMs, stepSizeMs, aggregation) # ""
    THEN Threw(ParameterError(windowSizeMs, stepSizeMs, aggregation))
    ELSE IF points.isNull \/ Len(points.items) = 0
    THEN Returned(<<>>)
    ELSE Returned(RollingOf(points, windowSizeMs, stepSizeMs, aggregation,
                            discardIncompleteWindows))

(***************************************************************************)
(* Inputs of the aggregator.  AggInit draws a sample list of up to         *)
(* MaxSamples entries in one order per multiset of samples;                *)
(* AggOrderInit draws a list of up to MaxShuffled entries in every order   *)
(* (duplicates and out-of-order entries included).                         *)
(***************************************************************************)
ValueRank(v) ==
    CASE v.k = "null" -> 0
      [] v.k = "undefined" -> 1
      [] v.k = "NaN" -> 2
      [] v.k = "number" -> 2 + v.n

SampleRank(p) == p.timestamp * 16 + ValueRank(p.value)

RankedLists(n) ==
    {s \in [1..n -> Samples] : \A i \in 1..(n - 1) : SampleRank(s[i]) <= SampleRank(s[i + 1])}

SampleLists == UNION {RankedLists(n) : n \in 0..MaxSamples}

ShuffledLists == UNION {[1..n -> Samples] : n \in 0..MaxShuffled}

NullList == [isNull |-> TRUE, items |-> <<>>]
List(items) == [isNull |-> FALSE, items |-> items]

NoArgs ==
    [windowSizeMs |-> 0, stepSizeMs |-> 0, aggregation |-> "", discardIncompleteWindows |-> FALSE]

NoThresholds ==
    [critical |-> [defined |-> FALSE, value |-> Frac(0, 1)],
     warning |-> [defined |-> FALSE, value |-> Frac(0, 1)]]

NoBreachArgs == [thresholds |-> NoThresholds, isHighBad |-> TRUE]

\* A number of the analysis that may also be NaN, an infinity or undefined.
Finite(x) == [k |-> "number", x |-> x]
NotANumber == [k |-> "NaN", x |-> Frac(0, 1)]
MinusInfinity == [k |-> "-Infinity", x |-> Frac(0, 1)]
Undefined == [k |-> "undefined", x |-> Frac(0, 1)]
Whole(n) == Frac(n, 1)

\* the stats object {} and the monitor of an analysis not yet made
EmptyStats ==
    [empty |-> TRUE, min |-> Whole(0), max |-> Whole(0), mean |-> Whole(0),
     minusZeroMean |-> FALSE, median |-> Whole(0),
     p05 |-> Whole(0), p10 |-> Whole(0), p50 |-> Whole(0), p90 |-> Whole(0), p95 |-> Whole(0),
     p99 |-> Whole(0), std |-> Undefined]

NoOptions == [defined |-> FALSE, critical |-> Undefined]
NoMonitor == [options |-> NoOptions, thresholds |-> NoThresholds]
NoRecommendations ==
    [strategy |-> "", critical |-> Undefined, critical_operator |-> "", warning |-> Undefined,
     recovery |-> Undefined, recommended_window |-> "", recommended_delay |-> 0,
     insights |-> <<>>]

\* the state of a component no call has been made on
AnalysisStart ==
    /\ monitor = NoMonitor
    /\ stats = EmptyStats
    /\ volatilityScore = Finite(Whole(0))
    /\ dedupedBreaches = <<>>
    /\ recommendations = NoRecommendations
    /\ analysisPc = "ready"

NullQuery == [isNull |-> TRUE, text |-> <<>>]
NoQueryInfo == [aggregation |-> <<>>, timeWindow |-> <<>>, timeWindowMs |-> 0]
NoRollupInfo ==
    [timeWindow |-> <<>>, timeWindowSeconds |-> 0, aggFunction |-> <<>>, rollupString |-> <<>>]

QueryStart ==
    /\ queryInfo = NoQueryInfo
    /\ parsePc = "ready"
    /\ rollupInfo = NoRollupInfo
    /\ rollupPc = "ready"

AggStart ==
    /\ aggArgs = NoArgs
    /\ aggPc = "ready"
    /\ rollingData = <<>>
    /\ aggError = ""

BreachStart ==
    /\ breachArgs = NoBreachArgs
    /\ breachPc = "ready"
    /\ breaches = <<>>
    /\ breachStats = <<>>

AggInit ==
    /\ dataPoints \in {NullList} \cup {List(s) : s \in SampleLists}
    /\ AggStart
    /\ query = NullQuery
    /\ QueryStart
    /\ timeSeriesData = <<>>
    /\ BreachStart
    /\ AnalysisStart

AggOrderInit ==
    /\ dataPoints \in {NullList} \cup {List(s) : s \in ShuffledLists}
    /\ AggStart
    /\ query = NullQuery
    /\ QueryStart
    /\ timeSeriesData = <<>>
    /\ BreachStart
    /\ AnalysisStart

\* One call of calculateRollingAggregation on the list, which returns normally.
CallReturns(w, s, agg, discard) ==
    LET r == calculateRollingAggregation(dataPoints, w, s, agg, discard)
    IN  /\ aggPc = "ready"
        /\ ~r.threw
        /\ aggArgs' = [windowSizeMs |-> w, stepSizeMs |-> s, aggregation |-> agg,
                       discardIncompleteWindows |-> discard]
        /\ aggPc' = "returned"
        /\ rollingData' = r.value
        /\ aggError' = ""
        /\ UNCHANGED <<dataPoints, breachVars, analysisVars, queryVars>>

\* One call of calculateRollingAggregation on the list, which throws.
CallThrows(w, s, agg, discard) ==
    LET r == calculateRollingAggregation(dataPoints, w, s, agg, discard)
    IN  /\ aggPc = "ready"
        /\ r.threw
        /\ aggArgs' = [windowSizeMs |-> w, stepSizeMs |-> s, aggregation |-> agg,
                       discardIncompleteWindows |-> discard]
        /\ aggPc' = "threw"
        /\ rollingData' = <<>>
        /\ aggError' = r.error
        /\ UNCHANGED <<dataPoints, breachVars, analysisVars, queryVars>>

AggNext ==
    \E w \in WindowSizes, s \in StepSizes, agg \in Aggregations, discard \in BOOLEAN :
        \/ CallReturns(w, s, agg, discard)
        \/ CallThrows(w, s, agg, discard)

AggSpec == AggInit /\ [][AggNext]_vars

AggOrderSpec == AggOrderInit /\ [][AggNext]_vars

(***************************************************************************)
(* analyzeThresholdBreaches.                                               *)
(***************************************************************************)
Level(threshold, level, isHighBad) ==
    [value |-> threshold.value, level |-> level,
     operator |-> IF isHighBad THEN ">=" ELSE "<="]

\* Variant: the Warning threshold is checked only when there is no Critical one.
ThresholdsToCheckFirstOnly(thresholds, isHighBad) ==
    IF thresholds.critical.defined
    THEN <<Level(thresholds.critical, "Critical", isHighBad)>>
    ELSE IF thresholds.warning.defined
    THEN <<Level(thresholds.warning, "Warning", isHighBad)>> ELSE <<>>

\* thresholdsToCheck: Critical first, then Warning, each only when configured
ThresholdsToCheck(thresholds, isHighBad) ==
    (IF thresholds.critical.defined
     THEN <<Level(thresholds.critical, "Critical", isHighBad)>> ELSE <<>>)
    \o (IF thresholds.warning.defined
        THEN <<Level(thresholds.warning, "Warning", isHighBad)>> ELSE <<>>)

\* Variant: the comparison is strict.
BreachedStrictly(point, threshold, isHighBad) ==
    IF isHighBad THEN Less(threshold.value, point.value) ELSE Less(point.value, threshold.value)

\* breached = isHighBad ? value >= threshold : value <= threshold
Breached(point, threshold, isHighBad) ==
    IF isHighBad THEN AtMost(threshold.value, point.value)
    ELSE AtMost(point.value, threshold.value)

Abs(x) == IF x.num < 0 THEN Frac(-x.num, x.den) ELSE x
Max(a, b) == IF Less(a, b) THEN b ELSE a

\* a breach opened at point; endTime and endValue are null (-1 here) and
\* duration 0 until it is ended
OpenBreach(point, threshold) ==
    [level |-> threshold.level,
     threshold |-> threshold.value,
     operator |-> threshold.operator,
     startTime |-> point.timestamp,
     startValue |-> point.value,
     peakValue |-> point.value,
     peakTime |-> point.timestamp,
     endTime |-> -1,
     endValue |-> -1,
     duration |-> Frac(0, 60000),
     maxDeviation |-> Abs(Minus(point.value, threshold.value)),
     isOngoing |-> FALSE]

\* Variant: a point equal to the peak also moves the peak.
UpdateBreachLatest(breach, point, threshold, isHighBad) ==
    LET worse == IF isHighBad THEN AtMost(breach.peakValue, point.value)
                 ELSE AtMost(point.value, breach.peakValue)
    IN  [breach EXCEPT
            !.peakValue = IF worse THEN point.value ELSE @,
            !.peakTime = IF worse THEN point.timestamp ELSE @,
            !.maxDeviation = Max(@, Abs(Minus(point.value, threshold.value)))]

\* the update of an open breach by a further breaching point
UpdateBreach(breach, point, threshold, isHighBad) ==
    LET worse == IF isHighBad THEN Less(breach.peakValue, point.value)
                 ELSE Less(point.value, breach.peakValue)
    IN  [breach EXCEPT
            !.peakValue = IF worse THEN point.value ELSE @,
            !.peakTime = IF worse THEN point.timestamp ELSE @,
            !.maxDeviation = Max(@, Abs(Minus(point.value, threshold.value)))]

\* Variant: a breach ended inside the series is flagged ongoing.
EndBreachFlagged(breach, point) ==
    [breach EXCEPT
        !.endTime = point.timestamp,
        !.endValue = point.value,
        !.duration = Frac(point.timestamp - breach.startTime, 60000),
        !.isOngoing = TRUE]

\* the end of a breach at the first point that does not breach
EndBreach(breach, point) ==
    [breach EXCEPT
        !.endTime = point.timestamp,
        !.endValue = point.value,
        !.duration = Frac(point.timestamp - breach.startTime, 60000)]

\* the end of a breach still open after the last point
EndOngoing(breach, lastPoint) ==
    [breach EXCEPT
        !.endTime = lastPoint.timestamp,
        !.endValue = lastPoint.value,
        !.duration = Frac(lastPoint.timestamp - breach.startTime, 60000),
        !.isOngoing = TRUE]

\* Variant: every ended breach is kept.
LastsAMinuteAlways(breach) == TRUE

\* currentBreach.duration >= 1
LastsAMinute(breach) == breach.duration.num >= breach.duration.den

\* One turn of the loop over the points for one threshold, on the state
\* scan = [current, found].  current is <<>> (null) or <<b>>.
ScanPoint(scan, point, threshold, isHighBad) ==
    IF Breached(point, threshold, isHighBad)
    THEN IF scan.current = <<>>
         THEN [scan EXCEPT !.current = <<OpenBreach(point, threshold)>>]
         ELSE [scan EXCEPT
                  !.current = <<UpdateBreach(scan.current[1], point, threshold, isHighBad)>>]
    ELSE IF scan.current # <<>>
         THEN LET ended == EndBreach(scan.current[1], point)
              IN  [current |-> <<>>,
                   found |-> IF LastsAMinute(ended) THEN Append(scan.found, ended)
                             ELSE scan.found]
         ELSE scan

\* The loop over the points lo..hi of the sorted data, in order: the state
\* after the last of them.  The points are taken in two halves, and the
\* state after the first half is looked at before the second is entered,
\* which keeps the evaluation shallow on a long series.
RECURSIVE ScanPoints(_, _, _, _, _, _)
ScanPoints(sortedData, lo, hi, scan, threshold, isHighBad) ==
    IF lo > hi THEN scan
    ELSE IF lo = hi THEN ScanPoint(scan, sortedData[lo], threshold, isHighBad)
    ELSE LET mid == (lo + hi) \div 2
             half == ScanPoints(sortedData, lo, mid, scan, threshold, isHighBad)
         IN  IF half.current = <<>>
             THEN ScanPoints(sortedData, mid + 1, hi, half, threshold, isHighBad)
             ELSE ScanPoints(sortedData, mid + 1, hi, half, threshold, isHighBad)

\* Variant: a breach still open after the last point is dropped.
FinishLevelDropped(scan, sortedData) == scan.found

\* "Handle ongoing breach at end of data"
FinishLevel(scan, sortedData) ==
    IF scan.current # <<>>
    THEN LET ended == EndOngoing(scan.current[1], sortedData[Len(sortedData)]) IN
         IF LastsAMinute(ended) THEN Append(scan.found, ended) ELSE scan.found
    ELSE scan.found

\* the loop over thresholdsToCheck, from index k on
RECURSIVE ScanLevels(_, _, _, _, _)
ScanLevels(sortedData, levels, k, found, isHighBad) ==
    IF k > Len(levels) THEN found
    ELSE ScanLevels(sortedData, levels, k + 1,
                    FinishLevel(ScanPoints(sortedData, 1, Len(sortedData),
                                           [current |-> <<>>, found |-> found],
                                           levels[k], isHighBad),
                                sortedData),
                    isHighBad)

\* Variant: the fraction is cut off instead of rounded.
RoundDown(num, den) == num \div den

\* Math.round of the fraction num / den, den > 0
Round(num, den) == (2 * num + den) \div (2 * den)
RoundOf(x) == Round(x.num, x.den)

\* Math.max(...) of a list of numbers that is not empty
RECURSIVE MaxOf(_)
MaxOf(s) ==
    IF Len(s) = 1 THEN s[1]
    ELSE LET half == Len(s) \div 2
         IN  Max(MaxOf(SubSeq(s, 1, half)), MaxOf(SubSeq(s, half + 1, Len(s))))

\* the stats object
BreachStatsOf(found) ==
    LET n == Len(found)
        durations == [i \in 1..n |-> found[i].duration.num]
        deviations == [i \in 1..n |-> found[i].maxDeviation]
    IN  [totalBreaches |-> n,
         criticalBreaches |-> Len(SelectSeq(found, LAMBDA b : b.level = "Critical")),
         warningBreaches |-> Len(SelectSeq(found, LAMBDA b : b.level = "Warning")),
         avgDuration |-> IF n > 0 THEN Round(SumSeq(durations), 60000 * n) ELSE 0,
         longestBreach |-> IF n > 0 THEN Round(MaxSeq(durations), 60000) ELSE 0,
         shortBreaches |-> Len(SelectSeq(found, LAMBDA b : b.duration.num < 15 * b.duration.den)),
         sustainedBreaches |-> Len(SelectSeq(found, LAMBDA b : b.duration.num > 30 * b.duration.den)),
         maxDeviation |-> IF n > 0 THEN RoundOf(MaxOf(deviations)) ELSE 0]

analyzeThresholdBreaches(series, thresholds, isHighBad) ==
    IF Len(series) = 0 THEN [breaches |-> <<>>, stats |-> <<>>]
    ELSE LET sortedData == SortByTimestamp(series)
             found == ScanLevels(sortedData, ThresholdsToCheck(thresholds, isHighBad), 1,
                                 <<>>, isHighBad)
         IN  [breaches |-> found, stats |-> BreachStatsOf(found)]

(***************************************************************************)
(* Inputs of the breach detector: a series of up to MaxPoints points on a  *)
(* grid of one of three spacings (30 s, 5 min, 16 min), with strictly      *)
(* ascending timestamps as the aggregator emits them, given in ascending   *)
(* or in descending order.                                                 *)
(***************************************************************************)
Half(n) == Frac(n, 2)
PointValues == {Half(1), Half(2), Half(3)}
Spacings == {30000, 300000, 960000}
ThresholdChoices ==
    {[defined |-> FALSE, value |-> Frac(0, 1)]}
    \cup {[defined |-> TRUE, value |-> v] : v \in PointValues}

SeriesOf(values, spacing) ==
    [i \in 1..Len(values) |-> [timestamp |-> (i - 1) * spacing, value |-> values[i]]]

Reverse(s) == [i \in 1..Len(s) |-> s[Len(s) + 1 - i]]

SeriesChoices ==
    LET ascending ==
            {SeriesOf(values, spacing) :
                values \in UNION {[1..n -> PointValues] : n \in 0..MaxPoints},
                spacing \in Spacings}
    IN  ascending \cup {Reverse(s) : s \in ascending}

BreachInit ==
    /\ timeSeriesData \in SeriesChoices
    /\ BreachStart
    /\ dataPoints = List(<<>>)
    /\ AggStart
    /\ query = NullQuery
    /\ QueryStart
    /\ AnalysisStart

\* One call of analyzeThresholdBreaches on the series.
Analyze(thresholds, isHighBad) ==
    LET r == analyzeThresholdBreaches(timeSeriesData, thresholds, isHighBad)
    IN  /\ breachPc = "ready"
        /\ breachArgs' = [thresholds |-> thresholds, isHighBad |-> isHighBad]
        /\ breachPc' = "returned"
        /\ breaches' = r.breaches
        /\ breachStats' = r.stats
        /\ UNCHANGED <<timeSeriesData, aggVars, analysisVars, queryVars>>

BreachNext ==
    \E critical \in ThresholdChoices, warning \in ThresholdChoices, isHighBad \in BOOLEAN :
        Analyze([critical |-> critical, warning |-> warning], isHighBad)

BreachSpec == BreachInit /\ [][BreachNext]_vars

(***************************************************************************)
(* calculateStatistics and the volatility score of combineHighResData.     *)
(***************************************************************************)
Plus(a, b) ==
    IF a.den = b.den THEN Frac(a.num + b.num, a.den)
    ELSE Frac(a.num * b.den + b.num * a.den, a.den * b.den)

\* the product of a number and the decimal literal num / den
Times(a, num, den) == Frac(a.num * num, a.den * den)

\* values.reduce((a, b) => a + b, 0) for a list that is not empty; the sum
\* is exact, so the order of the additions does not matter
RECURSIVE SumOf(_)
SumOf(s) ==
    IF Len(s) = 1 THEN s[1]
    ELSE LET half == Len(s) \div 2
         IN  Plus(SumOf(SubSeq(s, 1, half)), SumOf(SubSeq(s, half + 1, Len(s))))

\* Math.min(...) of a list of numbers that is not empty
Min(a, b) == IF Less(b, a) THEN b ELSE a
RECURSIVE MinOf(_)
MinOf(s) ==
    IF Len(s) = 1 THEN s[1]
    ELSE LET half == Len(s) \div 2
         IN  Min(MinOf(SubSeq(s, 1, half)), MinOf(SubSeq(s, half + 1, Len(s))))

\* [...values].sort((a, b) => a - b), a stable sort.  The place of s[i]
\* in the sorted array: after the smaller values and the earlier equal ones.
PlaceByValue(s, i) ==
    1 + Cardinality({j \in 1..Len(s) : Less(s[j], s[i]) \/ (SameNumber(s[j], s[i]) /\ j < i)})

SortByValue(s) ==
    LET placed == {<<PlaceByValue(s, i), i>> : i \in 1..Len(s)}
    IN  SubSeq([k \in 1..Len(s) |-> s[CHOOSE i \in 1..Len(s) : <<k, i>> \in placed]],
               1, Len(s))

\* Variant: the nearest-rank percentile, index ceil(n * percent / 100) - 1.
PercentileNearestRank(sorted, percent) ==
    sorted[IF Len(sorted) * percent = 0 THEN 1 ELSE (Len(sorted) * percent + 99) \div 100]

\* sorted[Math.floor(n * percent / 100)], indices from 0
Percentile(sorted, percent) == sorted[(Len(sorted) * percent) \div 100 + 1]

\* The sum of (x - mean)^2 over the values, as a fraction.  With mean the
\* exact mean of the n values, the sum equals the sum of (x_i - x_j)^2 over
\* the pairs i < j divided by n, which is how it is computed here.
\* The pairs are summed by halves of the index ranges.
RECURSIVE SquaredDifferencesTo(_, _, _, _)
SquaredDifferencesTo(values, i, lo, hi) ==
    IF lo > hi THEN Frac(0, 1)
    ELSE IF lo = hi
    THEN LET d == Minus(values[i], values[lo]) IN Frac(d.num * d.num, d.den * d.den)
    ELSE LET mid == (lo + hi) \div 2
         IN  Plus(SquaredDifferencesTo(values, i, lo, mid),
                  SquaredDifferencesTo(values, i, mid + 1, hi))

RECURSIVE SquaredDifferences(_, _, _)
SquaredDifferences(values, lo, hi) ==
    IF lo > hi THEN Frac(0, 1)
    ELSE IF lo = hi THEN SquaredDifferencesTo(values, lo, lo + 1, Len(values))
    ELSE LET mid == (lo + hi) \div 2
         IN  Plus(SquaredDifferences(values, lo, mid), SquaredDifferences(values, mid + 1, hi))

SumOfSquares(values) ==
    LET s == SquaredDifferences(values, 1, Len(values)) IN Frac(s.num, s.den * Len(values))

\* Math.round(Math.sqrt(num / den)) for num >= 0, den > 0: the least r with
\* 4 * num / den < (2r + 1)^2, searched between lo and hi; k < m * m is
\* tested as k \div m < m
RECURSIVE RootBetween(_, _, _)
RootBetween(k, lo, hi) ==
    IF lo = hi THEN lo
    ELSE LET mid == (lo + hi) \div 2
         IN  IF k \div (2 * mid + 1) < 2 * mid + 1 THEN RootBetween(k, lo, mid)
             ELSE RootBetween(k, mid + 1, hi)

RoundSqrt(num, den) ==
    LET k == 4 * (num \div den) + (4 * (num % den)) \div den IN RootBetween(k, 0, k)

\* std: Math.round(Math.sqrt(sum of squares / (n - 1))); 0 / 0 is NaN
StandardDeviation(values) ==
    LET n == Len(values)
        squares == SumOfSquares(values)
    IN  IF n = 1 THEN NotANumber
        ELSE Finite(Whole(RoundSqrt(squares.num, squares.den * (n - 1))))

calculateStatistics(values) ==
    IF Len(values) = 0 THEN EmptyStats
    ELSE LET sorted == SortByValue(values)
             n == Len(sorted)
             total == SumOf(values)
             mean == Frac(total.num, total.den * n)
         IN  [empty |-> FALSE,
              min |-> MinOf(values),
              max |-> MaxOf(values),
              mean |-> Whole(RoundOf(mean)),
              \* Math.round gives -0 for a mean from -0.5 up to but not 0
              minusZeroMean |-> mean.num < 0 /\ RoundOf(mean) = 0,
              median |-> sorted[n \div 2 + 1],
              p05 |-> Percentile(sorted, 5),
              p10 |-> Percentile(sorted, 10),
              p50 |-> Percentile(sorted, 50),
              p90 |-> Percentile(sorted, 90),
              p95 |-> Percentile(sorted, 95),
              p99 |-> Percentile(sorted, 99),
              std |-> StandardDeviation(values)]

\* Math.min(10, Math.round((stats.std / stats.mean) * 10)), on the rounded
\* std and mean of the stats object: x / 0 is Infinity and x / -0 is
\* -Infinity for x > 0, 0 / 0 is NaN, and Math.min and Math.round keep NaN
\* and -Infinity.
VolatilityScore(summary) ==
    IF summary.std.k # "number" THEN NotANumber
    ELSE IF summary.mean.num = 0
    THEN IF summary.std.x.num = 0 THEN NotANumber
         ELSE IF summary.minusZeroMean THEN MinusInfinity ELSE Finite(Whole(10))
    ELSE LET ratio == IF summary.mean.num > 0
                      THEN Round(10 * summary.std.x.num, summary.mean.num)
                      ELSE Round(-10 * summary.std.x.num, -summary.mean.num)
         IN  Finite(Whole(IF ratio > 10 THEN 10 ELSE ratio))

\* The part of combineHighResData after the rolling aggregation, on the
\* rolling window data it was given.
combineHighResData(rollingWindowData, thresholds, isHighBad) ==
    IF Len(rollingWindowData) = 0
    THEN [stats |-> EmptyStats, breaches |-> <<>>, breachStats |-> <<>>,
          volatilityScore |-> Finite(Whole(0))]
    ELSE LET allValues == [i \in 1..Len(rollingWindowData) |-> rollingWindowData[i].value]
             summary == calculateStatistics(allValues)
             breachAnalysis == analyzeThresholdBreaches(rollingWindowData, thresholds, isHighBad)
         IN  [stats |-> summary,
              breaches |-> breachAnalysis.breaches,
              breachStats |-> breachAnalysis.stats,
              volatilityScore |-> VolatilityScore(summary)]

(***************************************************************************)
(* analyseMonitor: the monitor, the thresholds and the breaches it shows.  *)
(***************************************************************************)
\* getMonitorConfig: the object returned has the thresholds of the monitor's
\* options, or {}, and has no options of its own
getMonitorConfig(apiThresholds) == [options |-> NoOptions, thresholds |-> apiThresholds]

\* value is undefined or 0
Falsy(threshold) == ~threshold.defined \/ threshold.value.num = 0

\* critical: configThresholds.critical || queryThreshold?.value, warning:
\* configThresholds.warning
MergedThresholds(configThresholds, queryThreshold) ==
    [critical |-> IF Falsy(configThresholds.critical) THEN queryThreshold
                  ELSE configThresholds.critical,
     warning |-> configThresholds.warning]

\* [...breaches].sort((a, b) => a.startTime - b.startTime): a stable sort
RECURSIVE InsertByStartTime(_, _)
InsertByStartTime(sorted, b) ==
    IF sorted = <<>> THEN <<b>>
    ELSE IF b.startTime < Head(sorted).startTime THEN <<b>> \o sorted
    ELSE <<Head(sorted)>> \o InsertByStartTime(Tail(sorted), b)

RECURSIVE SortByStartTime(_)
SortByStartTime(s) ==
    IF s = <<>> THEN <<>>
    ELSE InsertByStartTime(SortByStartTime(SubSeq(s, 1, Len(s) - 1)), s[Len(s)])

\* Variant: the peaks are compared as they are, not rounded.
SkippedOnEqualPeak(sortedBreaches, i) ==
    /\ sortedBreaches[i].level = "Warning"
    /\ i < Len(sortedBreaches)
    /\ sortedBreaches[i + 1].level = "Critical"
    /\ sortedBreaches[i].peakValue = sortedBreaches[i + 1].peakValue

\* "Skip warning if next breach is critical with same peak value"
Skipped(sortedBreaches, i) ==
    /\ sortedBreaches[i].level = "Warning"
    /\ i < Len(sortedBreaches)
    /\ sortedBreaches[i + 1].level = "Critical"
    /\ RoundOf(sortedBreaches[i].peakValue) = RoundOf(sortedBreaches[i + 1].peakValue)

RECURSIVE DedupFrom(_, _)
DedupFrom(sortedBreaches, i) ==
    IF i > Len(sortedBreaches) THEN <<>>
    ELSE (IF Skipped(sortedBreaches, i) THEN <<>> ELSE <<sortedBreaches[i]>>)
         \o DedupFrom(sortedBreaches, i + 1)

DedupedBreaches(found) == DedupFrom(SortByStartTime(found), 1)

(***************************************************************************)
(* generateRecommendations.                                                *)
(***************************************************************************)
Conservative == "Conservative (High volatility or sustained breaches)"
Balanced == "Balanced (Moderate volatility or some breaches)"
Standard == "Standard (Low volatility, minimal breaches)"

\* score > n for a score that may be NaN
Above(score, n) == score.k = "number" /\ Less(Whole(n), score.x)

\* Variant: the comparison is not strict.
StatAtLeast(bs, field, n) == bs # <<>> /\ bs[field] >= n

\* breachStats[field] > n for a breachStats that may be {}
StatAbove(bs, field, n) == bs # <<>> /\ bs[field] > n

\* Variant: the boundary values trigger their rule.
StrategyInclusive(score, bs) ==
    IF Above(score, 6) \/ StatAbove(bs, "sustainedBreaches", 2) THEN Conservative
    ELSE IF Above(score, 3) \/ StatAbove(bs, "totalBreaches", 4) THEN Balanced
    ELSE Standard

\* Variant: the two volatility rules are taken in the other order.
StrategySwapped(score, bs) ==
    IF Above(score, 4) /\ ~Above(score, 7) THEN Conservative
    ELSE IF Above(score, 7) \/ StatAbove(bs, "sustainedBreaches", 3) THEN Balanced
    ELSE IF StatAbove(bs, "totalBreaches", 5) THEN Balanced
    ELSE Standard

Strategy(score, bs) ==
    IF Above(score, 7) \/ StatAbove(bs, "sustainedBreaches", 3) THEN Conservative
    ELSE IF Above(score, 4) \/ StatAbove(bs, "totalBreaches", 5) THEN Balanced
    ELSE Standard

\* Variant: warning and recovery are taken from the rounded critical.
HighIsBadThresholdsRounded(strategy, summary) ==
    LET critical ==
            Whole(RoundOf(IF strategy = Conservative THEN Max(summary.p95, Times(summary.max, 7, 10))
                          ELSE IF strategy = Balanced THEN Max(summary.p99, Times(summary.max, 8, 10))
                          ELSE summary.p99))
    IN  IF strategy = Conservative
        THEN [critical |-> critical, warning |-> RoundOf(Times(critical, 65, 100)),
              recovery |-> RoundOf(Times(critical, 85, 100))]
        ELSE IF strategy = Balanced
        THEN [critical |-> critical, warning |-> RoundOf(Times(critical, 75, 100)),
              recovery |-> RoundOf(Times(critical, 9, 10))]
        ELSE [critical |-> critical, warning |-> RoundOf(Times(critical, 8, 10)),
              recovery |-> RoundOf(Times(critical, 95, 100))]

\* critical (not yet rounded), warning and recovery when high is bad
HighIsBadThresholds(strategy, summary) ==
    IF strategy = Conservative
    THEN LET critical == Max(summary.p95, Times(summary.max, 7, 10))
         IN  [critical |-> critical, warning |-> RoundOf(Times(critical, 65, 100)),
              recovery |-> RoundOf(Times(critical, 85, 100))]
    ELSE IF strategy = Balanced
    THEN LET critical == Max(summary.p99, Times(summary.max, 8, 10))
         IN  [critical |-> critical, warning |-> RoundOf(Times(critical, 75, 100)),
              recovery |-> RoundOf(Times(critical, 9, 10))]
    ELSE LET critical == summary.p99
         IN  [critical |-> critical, warning |-> RoundOf(Times(critical, 8, 10)),
              recovery |-> RoundOf(Times(critical, 95, 100))]

SmallerOf(a, b) == IF b < a THEN b ELSE a

\* Variant: recovery is taken below critical, as it is when high is bad.
LowIsBadThresholdsRecoveryBelow(strategy, summary) ==
    LET critical ==
            IF strategy = Conservative
            THEN SmallerOf(RoundOf(Times(summary.mean, 3, 10)), RoundOf(Times(summary.min, 15, 10)))
            ELSE IF strategy = Balanced
            THEN SmallerOf(RoundOf(Times(summary.mean, 4, 10)), RoundOf(Times(summary.min, 13, 10)))
            ELSE RoundOf(Times(summary.mean, 5, 10))
        warning ==
            IF strategy = Conservative THEN RoundOf(Times(summary.mean, 6, 10))
            ELSE IF strategy = Balanced THEN RoundOf(Times(summary.mean, 7, 10))
            ELSE RoundOf(Times(summary.mean, 75, 100))
    IN  [critical |-> Whole(critical), warning |-> warning,
         recovery |-> RoundOf(Times(Whole(critical), 85, 100))]

\* critical, warning and recovery when low is bad
LowIsBadThresholds(strategy, summary) ==
    LET critical ==
            IF strategy = Conservative
            THEN SmallerOf(RoundOf(Times(summary.mean, 3, 10)), RoundOf(Times(summary.min, 15, 10)))
            ELSE IF strategy = Balanced
            THEN SmallerOf(RoundOf(Times(summary.mean, 4, 10)), RoundOf(Times(summary.min, 13, 10)))
            ELSE RoundOf(Times(summary.mean, 5, 10))
        warning ==
            IF strategy = Conservative THEN RoundOf(Times(summary.mean, 6, 10))
            ELSE IF strategy = Balanced THEN RoundOf(Times(summary.mean, 7, 10))
            ELSE RoundOf(Times(summary.mean, 75, 100))
    IN  [critical |-> Whole(critical), warning |-> warning,
         recovery |-> RoundOf(Times(Whole(critical), 11, 10))]

LongWindowInsight == "Long average breach duration suggests 15-minute window appropriate"
ModerateWindowInsight == "Moderate breach duration suggests 10-minute window"
ShortWindowInsight == "Short breach duration allows for shorter 5-minute window"
TrendWindowInsight == "Job processing metrics benefit from 15-minute windows to detect trends"
VolatilityInsight == "High volatility (${combinedData.volatilityScore}/10) suggests conservative thresholds"
NoBreachInsight == "No threshold breaches detected - current thresholds may be appropriate"
QuickInsight == "Most breaches resolve quickly (<15min) - consider duration-based alerting"
SustainedInsight == "${breachStats.sustainedBreaches} sustained breaches detected - monitor for recurring issues"
DeviationInsight == "Maximum deviation: ${breachStats.maxDeviation.toLocaleString()} - shows severity of worst breaches"
DivergenceInsight == "Current threshold (${currentThreshold.toLocaleString()}) differs significantly from recommendation"
NoiseInsight == "Many short breaches detected - consider raising thresholds to reduce noise"

\* Variant: an average duration of exactly 60 or 30 minutes counts as above it.
WindowRecommendationInclusive(bs, isHighBad) ==
    IF ~isHighBad
    THEN [window |-> "avg(last_15m)", delay |-> 600, insight |-> TrendWindowInsight]
    ELSE IF StatAtLeast(bs, "avgDuration", 60)
    THEN [window |-> "avg(last_15m)", delay |-> 900, insight |-> LongWindowInsight]
    ELSE IF StatAtLeast(bs, "avgDuration", 30) \/ StatAbove(bs, "sustainedBreaches", 0)
    THEN [window |-> "avg(last_10m)", delay |-> 600, insight |-> ModerateWindowInsight]
    ELSE [window |-> "avg(last_5m)", delay |-> 300, insight |-> ShortWindowInsight]

\* window, delay and the insight pushed with them
WindowRecommendation(bs, isHighBad) ==
    IF ~isHighBad
    THEN [window |-> "avg(last_15m)", delay |-> 600, insight |-> TrendWindowInsight]
    ELSE IF StatAbove(bs, "avgDuration", 60)
    THEN [window |-> "avg(last_15m)", delay |-> 900, insight |-> LongWindowInsight]
    ELSE IF StatAbove(bs, "avgDuration", 30) \/ StatAbove(bs, "sustainedBreaches", 0)
    THEN [window |-> "avg(last_10m)", delay |-> 600, insight |-> ModerateWindowInsight]
    ELSE [window |-> "avg(last_5m)", delay |-> 300, insight |-> ShortWindowInsight]

\* "Additional insights based on breach data"
BreachInsights(score, bs) ==
    (IF Above(score, 6) THEN <<VolatilityInsight>> ELSE <<>>)
    \o (IF bs # <<>> /\ bs.totalBreaches = 0 THEN <<NoBreachInsight>>
        ELSE (IF bs # <<>> /\ bs.shortBreaches > bs.sustainedBreaches * 2
              THEN <<QuickInsight>> ELSE <<>>)
             \o (IF StatAbove(bs, "sustainedBreaches", 0) THEN <<SustainedInsight>> ELSE <<>>)
             \o (IF StatAbove(bs, "maxDeviation", 0) THEN <<DeviationInsight>> ELSE <<>>))

\* if (currentThreshold): it is a number other than 0
Truthy(v) == v.k = "number" /\ v.x.num # 0

\* Math.abs(currentThreshold - critical) / critical > 0.5, for critical a
\* number: x / 0 is Infinity for x > 0
DiffersSignificantly(currentThreshold, critical) ==
    IF critical.num = 0 THEN ~SameNumber(currentThreshold, critical)
    ELSE IF critical.num < 0 THEN FALSE
    ELSE Less(critical, Times(Abs(Minus(currentThreshold, critical)), 2, 1))

\* the insights on the monitor's current threshold; critical may be NaN
ThresholdInsights(currentThreshold, critical, bs) ==
    IF Truthy(currentThreshold)
    THEN (IF critical.k = "number" /\ DiffersSignificantly(currentThreshold.x, critical.x)
          THEN <<DivergenceInsight>> ELSE <<>>)
         \o (IF StatAbove(bs, "shortBreaches", 5) THEN <<NoiseInsight>> ELSE <<>>)
    ELSE <<>>

\* monitor.options?.thresholds?.critical
CurrentThreshold(m) == IF m.options.defined THEN m.options.critical ELSE Undefined

generateRecommendations(m, combinedData, isHighBad) ==
    LET summary == combinedData.stats
        bs == combinedData.breachStats
        strategy == Strategy(combinedData.volatilityScore, bs)
        found == IF isHighBad THEN HighIsBadThresholds(strategy, summary)
                 ELSE LowIsBadThresholds(strategy, summary)
        \* every threshold computed from the stats object {} is NaN
        critical == IF summary.empty THEN NotANumber ELSE Finite(found.critical)
        chosen == WindowRecommendation(bs, isHighBad)
    IN  [strategy |-> strategy,
         critical |-> IF summary.empty THEN NotANumber
                      ELSE Finite(Whole(RoundOf(found.critical))),
         critical_operator |-> IF isHighBad THEN ">" ELSE "<",
         warning |-> IF summary.empty THEN NotANumber ELSE Finite(Whole(found.warning)),
         recovery |-> IF summary.empty THEN NotANumber ELSE Finite(Whole(found.recovery)),
         recommended_window |-> chosen.window,
         recommended_delay |-> chosen.delay,
         insights |-> <<chosen.insight>>
                      \o BreachInsights(combinedData.volatilityScore, bs)
                      \o ThresholdInsights(CurrentThreshold(m), critical, bs)]

(***************************************************************************)
(* An analysis run of analyseMonitor on the rolling window data of the     *)
(* monitor: a series of up to MaxWindowed points on the 5-minute grid.     *)
(***************************************************************************)
WindowedValues == {Half(-2), Half(0), Half(1), Half(2)}
GridStep == 5 * 60 * 1000

WindowedSeries ==
    {SeriesOf(values, GridStep) :
        values \in UNION {[1..n -> WindowedValues] : n \in 0..MaxWindowed}}

\* the thresholds of the monitor's options (critical may be 0) and the
\* threshold found in its query
ConfiguredThresholds ==
    [critical : {[defined |-> FALSE, value |-> Frac(0, 1)]}
                \cup {[defined |-> TRUE, value |-> v] : v \in {Half(0), Half(2), Half(8)}},
     warning : {[defined |-> FALSE, value |-> Frac(0, 1)], [defined |-> TRUE, value |-> Half(1)]}]

QueryThresholds ==
    {[defined |-> FALSE, value |-> Frac(0, 1)], [defined |-> TRUE, value |-> Half(1)]}

AnalysisInit ==
    /\ timeSeriesData \in WindowedSeries
    /\ AnalysisStart
    /\ BreachStart
    /\ dataPoints = List(<<>>)
    /\ AggStart
    /\ query = NullQuery
    /\ QueryStart

\* analyseMonitor up to the return of combineHighResData
Analyse(apiThresholds, queryThreshold, isHighBad) ==
    LET thresholds == MergedThresholds(getMonitorConfig(apiThresholds).thresholds, queryThreshold)
        combinedData == combineHighResData(timeSeriesData, thresholds, isHighBad)
    IN  /\ analysisPc = "ready"
        /\ monitor' = getMonitorConfig(apiThresholds)
        /\ breachArgs' = [thresholds |-> thresholds, isHighBad |-> isHighBad]
        /\ stats' = combinedData.stats
        /\ breaches' = combinedData.breaches
        /\ breachStats' = combinedData.breachStats
        /\ volatilityScore' = combinedData.volatilityScore
        /\ analysisPc' = "combined"
        /\ UNCHANGED <<timeSeriesData, breachPc, dedupedBreaches, recommendations, aggVars, queryVars>>

\* analyseMonitor from the breach details to the volatility score: the
\* breaches are shown de-duplicated, and reading stats.min of the stats
\* object {} throws a TypeError, which ends the analysis
Report ==
    /\ analysisPc = "combined"
    /\ dedupedBreaches' = DedupedBreaches(breaches)
    /\ analysisPc' = IF stats.empty THEN "failed" ELSE "reported"
    /\ UNCHANGED <<monitor, stats, volatilityScore, recommendations, breachVars, aggVars, queryVars>>

\* the call of generateRecommendations
Recommend ==
    /\ analysisPc = "reported"
    /\ recommendations' =
           generateRecommendations(monitor,
                                   [stats |-> stats, breachStats |-> breachStats,
                                    volatilityScore |-> volatilityScore],
                                   breachArgs.isHighBad)
    /\ analysisPc' = "recommended"
    /\ UNCHANGED <<monitor, stats, volatilityScore, dedupedBreaches, breachVars, aggVars, queryVars>>

AnalysisNext ==
    \/ \E apiThresholds \in ConfiguredThresholds, queryThreshold \in QueryThresholds,
          isHighBad \in BOOLEAN :
          Analyse(apiThresholds, queryThreshold, isHighBad)
    \/ Report
    \/ Recommend

AnalysisSpec == AnalysisInit /\ [][AnalysisNext]_vars

(***************************************************************************)
(* An analysis run on a series with three excursions: on the 5-minute      *)
(* grid, quiet points below the critical threshold 600 around runs of 12,  *)
(* 13 and 12 points at or above it, each run ended by a quiet point, so    *)
(* that the breaches last 60, 65 and 60 minutes.                           *)
(***************************************************************************)
CriticalLine == Whole(600)
QuietValues == {Whole(50), Whole(599)}
ExcursionValues == {Whole(600), Whole(1000)}

Stretch(n, v) == [i \in 1..n |-> v]

\* stretches of quiet points: none or MaxQuiet before the first excursion,
\* 1 or MaxQuiet after each
ExcursionSeries ==
    {SeriesOf(Stretch(lead, quiet) \o Stretch(12, high) \o Stretch(first, quiet)
              \o Stretch(13, high) \o Stretch(second, quiet)
              \o Stretch(12, high) \o Stretch(trail, quiet), GridStep) :
        lead \in {0, MaxQuiet}, first \in {1, MaxQuiet}, second \in {1, MaxQuiet},
        trail \in {1, MaxQuiet}, quiet \in QuietValues, high \in ExcursionValues}

\* the critical threshold is in the monitor's options, in its query, or both
ExcursionThresholds ==
    {pair \in [api : {NoThresholds, [NoThresholds EXCEPT !.critical = [defined |-> TRUE, value |-> CriticalLine]]},
               query : {[defined |-> FALSE, value |-> Frac(0, 1)],
                        [defined |-> TRUE, value |-> CriticalLine]}] :
        pair.api.critical.defined \/ pair.query.defined}

ExcursionInit ==
    /\ timeSeriesData \in ExcursionSeries
    /\ AnalysisStart
    /\ BreachStart
    /\ dataPoints = List(<<>>)
    /\ AggStart
    /\ query = NullQuery
    /\ QueryStart

ExcursionNext ==
    \/ \E pair \in ExcursionThresholds : Analyse(pair.api, pair.query, TRUE)
    \/ Report
    \/ Recommend

ExcursionSpec == ExcursionInit /\ [][ExcursionNext]_vars

(***************************************************************************)
(* generateRecommendations on its own: the monitor, the statistics of a    *)
(* series of up to MaxSummarised values, a volatility score and the        *)
(* statistics of the breaches are drawn, and the function is applied.      *)
(***************************************************************************)
SummarisedValues == {Whole(-10), Whole(0), Whole(1), Whole(3), Half(21), Whole(35)}

Summaries ==
    {calculateStatistics(values) :
        values \in UNION {[1..n -> SummarisedValues] : n \in 1..MaxSummarised}}

\* Math.min(10, Math.round(...)): an integer up to 10, NaN or -Infinity
Scores == {NotANumber, MinusInfinity} \cup {Finite(Whole(n)) : n \in {-1, 0, 4, 5, 6, 7, 8, 10}}

\* the stats of a list of breaches: the short and the sustained ones are
\* among all of them, an average above 30 minutes needs a sustained breach
\* and an average of 15 minutes or more one that is not short
BreachStatsChoices ==
    {[totalBreaches |-> total, criticalBreaches |-> total, warningBreaches |-> 0,
      avgDuration |-> avg, longestBreach |-> IF sustained > 0 THEN 61 ELSE avg,
      shortBreaches |-> short, sustainedBreaches |-> sustained, maxDeviation |-> deviation] :
        total \in {1, 5, 6, 7}, short \in {0, 1, 6}, sustained \in {0, 1, 3, 4},
        avg \in {10, 30, 31, 60, 61}, deviation \in {0, 2}}

PossibleBreachStats ==
    {BreachStatsOf(<<>>)}
    \cup {bs \in BreachStatsChoices :
            /\ bs.shortBreaches + bs.sustainedBreaches <= bs.totalBreaches
            /\ bs.avgDuration > 30 => bs.sustainedBreaches > 0
            /\ bs.avgDuration >= 15 => bs.shortBreaches < bs.totalBreaches
            /\ bs.avgDuration <= 30 => bs.sustainedBreaches < bs.totalBreaches}

\* the monitor object: without options, or with a critical threshold in them
Monitors ==
    {NoMonitor}
    \cup {[options |-> [defined |-> TRUE, critical |-> Finite(Whole(c))],
           thresholds |-> NoThresholds] : c \in {0, 12}}

\* what combineHighResData can return: the empty summary, or statistics
\* with a score and breach statistics
Combined ==
    {[stats |-> EmptyStats, breachStats |-> <<>>, volatilityScore |-> Finite(Whole(0))]}
    \cup [stats : Summaries, breachStats : PossibleBreachStats, volatilityScore : Scores]

RecInit ==
    /\ monitor \in Monitors
    /\ \E combinedData \in Combined :
          /\ stats = combinedData.stats
          /\ breachStats = combinedData.breachStats
          /\ volatilityScore = combinedData.volatilityScore
    /\ \E isHighBad \in BOOLEAN :
          breachArgs = [thresholds |-> NoThresholds, isHighBad |-> isHighBad]
    /\ analysisPc = "reported"
    /\ timeSeriesData = <<>>
    /\ breachPc = "returned"
    /\ breaches = <<>>
    /\ dedupedBreaches = <<>>
    /\ recommendations = NoRecommendations
    /\ dataPoints = List(<<>>)
    /\ AggStart
    /\ query = NullQuery
    /\ QueryStart

RecNext == Recommend

RecSpec == RecInit /\ [][RecNext]_vars

(***************************************************************************)
(* calculateStatistics on its own: the value lists are the short lists     *)
(* over three values, with ties, and the numbers 1..n for n up to          *)
(* MaxCounted in ascending, descending and rotated order.                  *)
(***************************************************************************)
MaxListed == 3
MaxCounted == 100
ListedValues == {Half(1), Whole(1), Whole(2)}

Ascending(n) == [i \in 1..n |-> Whole(i)]
Descending(n) == [i \in 1..n |-> Whole(n + 1 - i)]
Rotated(n) == [i \in 1..n |-> Whole(((i + n \div 2 - 1) % n) + 1)]

ValueLists ==
    UNION {[1..n -> ListedValues] : n \in 0..MaxListed}
    \cup UNION {{Ascending(n), Descending(n), Rotated(n)} : n \in 1..MaxCounted}

StatsInit ==
    /\ \E values \in ValueLists : timeSeriesData = SeriesOf(values, GridStep)
    /\ AnalysisStart
    /\ BreachStart
    /\ dataPoints = List(<<>>)
    /\ AggStart
    /\ query = NullQuery
    /\ QueryStart

\* const stats = calculateStatistics(allValues)
Summarise ==
    /\ analysisPc = "ready"
    /\ stats' = calculateStatistics([i \in 1..Len(timeSeriesData) |-> timeSeriesData[i].value])
    /\ analysisPc' = "summarised"
    /\ UNCHANGED <<monitor, volatilityScore, dedupedBreaches, recommendations,
                   breachVars, aggVars, queryVars>>

StatsNext == Summarise

StatsSpec == StatsInit /\ [][StatsNext]_vars

(***************************************************************************)
(* The query parsers.  A string is a sequence of characters, and a regular *)
(* expression is matched as the engine matches it: at the leftmost place   *)
(* where it fits, \d+ and \w+ taking the whole run of digits or word       *)
(* characters (the character that must follow is not one of the run, so    *)
(* giving back part of the run never helps).                               *)
(***************************************************************************)
DigitChars == <<"0", "1", "2", "3", "4", "5", "6", "7", "8", "9">>
Digits == {DigitChars[i] : i \in 1..10}
Letters ==
    {"a", "b", "c", "d", "e", "f", "g", "h", "i", "j", "k", "l", "m",
     "n", "o", "p", "q", "r", "s", "t", "u", "v", "w", "x", "y", "z"}
\* \w, for the lower-case queries drawn here
WordChars == Letters \cup Digits \cup {"_"}

AvgText == <<"a", "v", "g">>
SumText == <<"s", "u", "m">>
MinText == <<"m", "i", "n">>
MaxText == <<"m", "a", "x">>
LastText == <<"l", "a", "s", "t", "_">>
UnknownText == <<"u", "n", "k", "n", "o", "w", "n">>
OneHourText == <<"1", "h">>

\* parseInt of a run of digits
RECURSIVE parseInt(_)
parseInt(digits) ==
    IF digits = <<>> THEN 0
    ELSE 10 * parseInt(SubSeq(digits, 1, Len(digits) - 1))
         + (CHOOSE n \in 0..9 : DigitChars[n + 1] = digits[Len(digits)])

\* `${value}` for an integer value >= 0
RECURSIVE Decimal(_)
Decimal(value) ==
    IF value < 10 THEN <<DigitChars[value + 1]>>
    ELSE Decimal(value \div 10) \o <<DigitChars[(value % 10) + 1]>>

\* the text has the literal at place p
HasAt(text, p, literal) ==
    /\ p + Len(literal) - 1 <= Len(text)
    /\ SubSeq(text, p, p + Len(literal) - 1) = literal

\* query.startsWith(prefix)
StartsWith(text, prefix) == HasAt(text, 1, prefix)

\* the last place of the run of the given characters that begins at p, p - 1
\* if there is none
RECURSIVE EndOfRun(_, _, _)
EndOfRun(text, p, chars) ==
    IF p > Len(text) \/ text[p] \notin chars THEN p - 1
    ELSE EndOfRun(text, p + 1, chars)

\* /before(\d+)([units])after/ fits at place p
MatchesAt(text, p, before, units, after) ==
    LET first == p + Len(before)
        last == EndOfRun(text, first, Digits)
    IN  /\ HasAt(text, p, before)
        /\ last >= first
        /\ last + 1 <= Len(text)
        /\ text[last + 1] \in units
        /\ HasAt(text, last + 2, after)

NoMatch == [found |-> FALSE, digits |-> <<>>, unit |-> ""]

\* text.match(/before(\d+)([units])after/): the leftmost match
Match(text, before, units, after) ==
    LET places == {p \in 1..Len(text) : MatchesAt(text, p, before, units, after)}
    IN  IF places = {} THEN NoMatch
        ELSE LET p == CHOOSE q \in places : \A r \in places : q <= r
                 first == p + Len(before)
                 last == EndOfRun(text, first, Digits)
             IN  [found |-> TRUE, digits |-> SubSeq(text, first, last), unit |-> text[last + 1]]

\* the units of /last_(\d+)([mhd])/
ParsedUnits == {"m", "h", "d"}

\* the units of /last_(\d+[smhd])/ and /(\d+)([smhd])/
ExtractedUnits == {"s", "m", "h", "d"}

DefaultQueryInfo ==
    [aggregation |-> AvgText, timeWindow |-> OneHourText, timeWindowMs |-> 3600000]

parseMonitorQuery(q) ==
    IF q.isNull \/ q.text = <<>> THEN DefaultQueryInfo
    ELSE LET timeWindowMatch == Match(q.text, LastText, ParsedUnits, <<>>)
             value == parseInt(timeWindowMatch.digits)
             unit == timeWindowMatch.unit
             timeWindowMs ==
                 IF ~timeWindowMatch.found THEN 3600000
                 ELSE IF unit = "m" THEN value * 60 * 1000
                 ELSE IF unit = "h" THEN value * 60 * 60 * 1000
                 ELSE IF unit = "d" THEN value * 24 * 60 * 60 * 1000
                 ELSE 3600000
             timeWindow ==
                 IF timeWindowMatch.found /\ unit \in {"m", "h", "d"}
                 THEN Decimal(value) \o <<unit>> ELSE OneHourText
             aggregation ==
                 IF StartsWith(q.text, SumText \o <<"(">>) THEN SumText
                 ELSE IF StartsWith(q.text, MinText \o <<"(">>) THEN MinText
                 ELSE IF StartsWith(q.text, MaxText \o <<"(">>) THEN MaxText
                 ELSE AvgText
         IN  [aggregation |-> aggregation, timeWindow |-> timeWindow,
              timeWindowMs |-> timeWindowMs]

\* the three patterns of extractTimeWindow, tried in turn
extractTimeWindow(text) ==
    LET plain == Match(text, LastText, ExtractedUnits, <<>>)
        bracketed == Match(text, <<"(">> \o LastText, ExtractedUnits, <<")">>)
        summed == Match(text, SumText \o <<"(">> \o LastText, ExtractedUnits, <<")">>)
    IN  IF plain.found THEN plain.digits \o <<plain.unit>>
        ELSE IF bracketed.found THEN bracketed.digits \o <<bracketed.unit>>
        ELSE IF summed.found THEN summed.digits \o <<summed.unit>>
        ELSE UnknownText

convertTimeToSeconds(timeStr) ==
    IF timeStr = <<>> \/ timeStr = UnknownText THEN 3600
    ELSE LET match == Match(timeStr, <<>>, ExtractedUnits, <<>>)
             value == parseInt(match.digits)
         IN  IF ~match.found THEN 3600
             ELSE IF match.unit = "s" THEN value
             ELSE IF match.unit = "m" THEN value * 60
             ELSE IF match.unit = "h" THEN value * 60 * 60
             ELSE IF match.unit = "d" THEN value * 24 * 60 * 60
             ELSE 3600

\* query.match(/^(\w+)\(/): the word the query begins with, if "(" follows it
AggFunction(text) ==
    LET last == EndOfRun(text, 1, WordChars)
    IN  IF last >= 1 /\ last + 1 <= Len(text) /\ text[last + 1] = "("
        THEN SubSeq(text, 1, last) ELSE SumText

\* for a query that is a string; null.match throws a TypeError
extractRollupAndInterval(text) ==
    LET timeWindow == extractTimeWindow(text)
        timeWindowSeconds == convertTimeToSeconds(timeWindow)
        aggFunction == AggFunction(text)
    IN  [timeWindow |-> timeWindow,
         timeWindowSeconds |-> timeWindowSeconds,
         aggFunction |-> aggFunction,
         rollupString |-> <<".", "r", "o", "l", "l", "u", "p", "(">> \o aggFunction \o <<",", " ">>
                          \o Decimal(timeWindowSeconds) \o <<")">>]

(***************************************************************************)
(* The queries drawn: <word>(last_<N><unit>):x for the four aggregation    *)
(* words and two other words, numbers of one and two digits and the units  *)
(* s, m, h, d and w, a change(...) query, queries without a window or      *)
(* without a word, the empty string and null.                              *)
(***************************************************************************)
QueryWords == {AvgText, SumText, MinText, MaxText, <<"c", "o", "u", "n", "t">>, <<"p", "9", "5">>}
QueryNumbers == {<<"1">>, <<"5">>, <<"1", "5">>}
QueryUnits == {"s", "m", "h", "d", "w"}
QueryRest == <<":", "x">>

WindowQuery(word, number, unit) ==
    word \o <<"(">> \o LastText \o number \o <<unit, ")">> \o QueryRest

Queries ==
    {NullQuery}
    \cup {[isNull |-> FALSE, text |-> text] :
            text \in {WindowQuery(word, number, unit) :
                         word \in QueryWords, number \in QueryNumbers, unit \in QueryUnits}
                     \cup {WindowQuery(AvgText, <<"3", "0">>, "s"),
                           WindowQuery(AvgText, <<"0", "2">>, "h"),
                           <<"c", "h", "a", "n", "g", "e">> \o <<"(">> \o AvgText \o <<"(">> \o LastText
                               \o <<"5", "m", ")", ",">> \o LastText \o <<"1", "h", ")">>
                               \o QueryRest,
                           AvgText \o <<"(">> \o LastText \o <<")">> \o QueryRest,
                           AvgText \o QueryRest,
                           LastText \o <<"5", "m">> \o QueryRest,
                           QueryRest,
                           <<>>}}

QueryInit ==
    /\ query \in Queries
    /\ QueryStart
    /\ dataPoints = List(<<>>)
    /\ AggStart
    /\ timeSeriesData = <<>>
    /\ BreachStart
    /\ AnalysisStart

\* getMonitorConfig: const queryInfo = parseMonitorQuery(monitor.query)
ParseMonitorQuery ==
    /\ parsePc = "ready"
    /\ queryInfo' = parseMonitorQuery(query)
    /\ parsePc' = "returned"
    /\ UNCHANGED <<query, rollupInfo, rollupPc, aggVars, breachVars, analysisVars>>

\* fetchHighResolutionData: const rollupInfo = extractRollupAndInterval(monitor.query)
ExtractRollupAndInterval ==
    /\ rollupPc = "ready"
    /\ IF query.isNull
       THEN rollupPc' = "threw" /\ rollupInfo' = rollupInfo
       ELSE rollupPc' = "returned" /\ rollupInfo' = extractRollupAndInterval(query.text)
    /\ UNCHANGED <<query, queryInfo, parsePc, aggVars, breachVars, analysisVars>>

QueryNext == ParseMonitorQuery \/ ExtractRollupAndInterval

QuerySpec == QueryInit /\ [][QueryNext]_vars



(***************************************************************************)
(* What the properties of the aggregator read: the call's inputs and its   *)
(* result, stated apart from the operators that compute the result.        *)
(***************************************************************************)
Items == dataPoints.items
WindowArg == aggArgs.windowSizeMs
StepArg == aggArgs.stepSizeMs
KindArg == aggArgs.aggregation
DiscardArg == aggArgs.discardIncompleteWindows

ItemTimes == {Items[i].timestamp : i \in 1..Len(Items)}
FirstTime == CHOOSE t \in ItemTimes : \A u \in ItemTimes : t <= u
LastTime == CHOOSE t \in ItemTimes : \A u \in ItemTimes : u <= t
CursorStart == IF DiscardArg THEN FirstTime + WindowArg ELSE FirstTime

\* the cursor positions the loop visits
Cursors == {t \in CursorStart..LastTime : (t - CursorStart) % StepArg = 0}

\* indices of the samples of the window (t - windowSizeMs, t]
SamplesIn(t) ==
    {i \in 1..Len(Items) : t - WindowArg < Items[i].timestamp /\ Items[i].timestamp <= t}

\* those of them whose value is a number
NumbersIn(t) == {i \in SamplesIn(t) : Items[i].value.k = "number"}

RECURSIVE TotalOf(_)
TotalOf(I) ==
    IF I = {} THEN 0
    ELSE LET i == CHOOSE j \in I : TRUE IN Items[i].value.n + TotalOf(I \ {i})

SpanOf(I) ==
    LET hi == CHOOSE i \in I : \A j \in I : Items[j].timestamp <= Items[i].timestamp
        lo == CHOOSE i \in I : \A j \in I : Items[i].timestamp <= Items[j].timestamp
    IN  Items[hi].timestamp - Items[lo].timestamp

\* the fraction f equals num / den
FracIs(f, num, den) == f.den > 0 /\ f.num * den = num * f.den

\* f is the aggregate of the given kind over the samples I
IsAggregateOf(f, kind, I) ==
    CASE kind = "avg" -> FracIs(f, TotalOf(I), Cardinality(I))
      [] kind = "sum" -> FracIs(f, TotalOf(I), 1)
      [] kind = "count" -> FracIs(f, Cardinality(I), 1)
      [] kind = "min" ->
            \E i \in I : /\ FracIs(f, Items[i].value.n, 1)
                         /\ \A j \in I : Items[i].value.n <= Items[j].value.n
      [] kind = "max" ->
            \E i \in I : /\ FracIs(f, Items[i].value.n, 1)
                         /\ \A j \in I : Items[j].value.n <= Items[i].value.n

PointsAt(t) == {j \in 1..Len(rollingData) : rollingData[j].timestamp = t}

\* C1: every emitted point carries the aggregate of its kind over exactly the
\* samples with a number value and timestamp in (t - windowSizeMs, t], where t
\* is the point's timestamp, and dataPointsInWindow is the number of them.
AggregateOverWindow ==
    aggPc = "returned" =>
        \A j \in 1..Len(rollingData) :
            LET point == rollingData[j]
                I == NumbersIn(point.timestamp)
            IN  /\ point.dataPointsInWindow = Cardinality(I)
                /\ I # {}
                /\ IsAggregateOf(point.value, KindArg, I)

\* C1 witness: an average over two numbers, with a number exactly at the
\* excluded left edge, a number exactly at the right edge and a dropped value
\* inside the window.
AggregateOverWindowWitness ==
    /\ aggPc = "returned"
    /\ KindArg = "avg"
    /\ \E j \in 1..Len(rollingData) :
          LET point == rollingData[j] IN
          /\ point.dataPointsInWindow = 2
          /\ point.value.num = 3
          /\ \E i \in 1..Len(Items) : /\ Items[i].timestamp = point.timestamp - WindowArg
                                      /\ Items[i].value.k = "number"
          /\ \E i \in 1..Len(Items) : /\ Items[i].timestamp = point.timestamp
                                      /\ Items[i].value.k = "number"
          /\ SamplesIn(point.timestamp) # NumbersIn(point.timestamp)

\* C2: every emitted point has timestamp = windowEnd, windowStart < windowEnd,
\* windowEnd - windowStart = windowSizeMs and dataPointsInWindow >= 1, and no
\* point is emitted at a cursor whose window holds no sample with a number
\* value, whatever discardIncompleteWindows is.
WindowInvariant ==
    aggPc = "returned" =>
        /\ \A j \in 1..Len(rollingData) :
              LET point == rollingData[j] IN
              /\ point.timestamp = point.windowEnd
              /\ point.windowStart < point.windowEnd
              /\ point.windowEnd - point.windowStart = WindowArg
              /\ point.dataPointsInWindow >= 1
        /\ Items # <<>> => \A t \in Cursors : NumbersIn(t) = {} => PointsAt(t) = {}

\* C2 witness: without discarding, a cursor whose window holds only dropped
\* values emits nothing while another cursor emits a point.
WindowInvariantWitness ==
    /\ aggPc = "returned"
    /\ ~DiscardArg
    /\ rollingData # <<>>
    /\ \E t \in Cursors : SamplesIn(t) # {} /\ NumbersIn(t) = {} /\ PointsAt(t) = {}

BadParameters == WindowArg <= 0 \/ StepArg <= 0
BadKind == KindArg \notin {"avg", "sum", "min", "max", "count"}

\* C3: the call throws exactly when windowSizeMs <= 0, stepSizeMs <= 0 or the
\* kind is not one of the five, whatever the sample list is (null and empty
\* included); with valid parameters a null or empty list returns [].
ParameterErrors ==
    aggPc # "ready" =>
        /\ (BadParameters \/ BadKind) <=> aggPc = "threw"
        /\ aggPc = "threw" <=> aggError # ""
        /\ (aggPc = "returned" /\ (dataPoints.isNull \/ Items = <<>>)) => rollingData = <<>>

\* C3 witness: a null list with a non-positive window size throws.
ParameterErrorsWitness ==
    /\ aggPc = "threw"
    /\ dataPoints.isNull
    /\ WindowArg <= 0
    /\ ~BadKind

\* C3 witness of the other half is part of the same runs: a null list with
\* valid parameters returns [].
NullListReturns ==
    aggPc = "returned" /\ dataPoints.isNull /\ rollingData = <<>>

\* One fixed permutation of a sample list: its entries in ascending rank.
RECURSIVE InsertByRank(_, _)
InsertByRank(sorted, p) ==
    IF sorted = <<>> THEN <<p>>
    ELSE IF SampleRank(p) < SampleRank(Head(sorted)) THEN <<p>> \o sorted
    ELSE <<Head(sorted)>> \o InsertByRank(Tail(sorted), p)

RECURSIVE RankSorted(_)
RankSorted(s) ==
    IF s = <<>> THEN <<>> ELSE InsertByRank(RankSorted(Tail(s)), Head(s))

CursorGrid ==
    (aggPc = "returned" /\ Items # <<>>) =>
        /\ \A j \in 1..Len(rollingData) :
              LET t == rollingData[j].timestamp IN
              /\ CursorStart <= t /\ t <= LastTime
              /\ (t - CursorStart) % StepArg = 0
        /\ \A j \in 1..(Len(rollingData) - 1) :
              rollingData[j].timestamp < rollingData[j + 1].timestamp
        /\ CursorStart <= LastTime =>
              Len(rollingData) <= ((LastTime - CursorStart) \div StepArg) + 1
        /\ CursorStart > LastTime => rollingData = <<>>

\* C5 witness: two points on a grid of step 2 with a sample between them.
CursorGridWitness ==
    /\ aggPc = "returned"
    /\ StepArg = 2
    /\ Len(rollingData) = 2
    /\ \E i \in 1..Len(Items) : (Items[i].timestamp - CursorStart) % StepArg # 0

\* C5 witness with discarding: the start is moved by the window size and a
\* point is emitted there.
CursorGridDiscardWitness ==
    /\ aggPc = "returned"
    /\ DiscardArg
    /\ rollingData # <<>>
    /\ rollingData[1].timestamp = FirstTime + WindowArg

\* the sparse-window test on a set of samples: they span less than 25% of the
\* window and are fewer than 3
Sparse(I) == 4 * SpanOf(I) < WindowArg /\ Cardinality(I) < 3

\* C6 as stated: with discarding, the test is made on the samples left after
\* the null/undefined/NaN values are dropped.
SparsePolicyOnValidSamples ==
    (aggPc = "returned" /\ Items # <<>>) =>
        \A t \in Cursors :
            LET I == NumbersIn(t) IN
            /\ (DiscardArg /\ I # {} /\ Sparse(I)) => PointsAt(t) = {}
            /\ (DiscardArg /\ I # {} /\ ~Sparse(I)) => PointsAt(t) # {}
            /\ (~DiscardArg /\ I # {}) => PointsAt(t) # {}

\* C6 as amended: the test is made on all the samples of the window, before
\* the null/undefined/NaN values are dropped.
SparsePolicyOnWindowSamples ==
    (aggPc = "returned" /\ Items # <<>>) =>
        \A t \in Cursors :
            LET I == NumbersIn(t)
                A == SamplesIn(t)
            IN  /\ (DiscardArg /\ A # {} /\ Sparse(A)) => PointsAt(t) = {}
                /\ (DiscardArg /\ I # {} /\ ~Sparse(A)) => PointsAt(t) # {}
                /\ (~DiscardArg /\ I # {}) => PointsAt(t) # {}

\* C6 witness: with discarding, one cursor's window is skipped as sparse
\* although it holds a number, and ...
SparsePolicyWitness ==
    /\ aggPc = "returned"
    /\ DiscardArg
    /\ Items # <<>>
    /\ \E t \in Cursors : NumbersIn(t) # {} /\ Sparse(SamplesIn(t)) /\ PointsAt(t) = {}

\* ... a window of three samples at one timestamp is emitted, and
SparsePolicyThreeSamples ==
    /\ aggPc = "returned"
    /\ DiscardArg
    /\ Items # <<>>
    /\ \E t \in Cursors :
          Cardinality(SamplesIn(t)) >= 3 /\ SpanOf(SamplesIn(t)) = 0 /\ PointsAt(t) # {}

\* ... a window of two samples spanning 25% or more of it is emitted.
SparsePolicyWideSpan ==
    /\ aggPc = "returned"
    /\ DiscardArg
    /\ Items # <<>>
    /\ \E t \in Cursors :
          Cardinality(SamplesIn(t)) = 2 /\ 4 * SpanOf(SamplesIn(t)) >= WindowArg
          /\ PointsAt(t) # {}

(***************************************************************************)
(* What the properties of the breach detector read: the series, the        *)
(* thresholds and the returned breaches, stated apart from the operators   *)
(* that compute them.                                                      *)
(***************************************************************************)
PointTimes == {timeSeriesData[i].timestamp : i \in 1..Len(timeSeriesData)}
ValueAt(ts) ==
    timeSeriesData[CHOOSE i \in 1..Len(timeSeriesData) : timeSeriesData[i].timestamp = ts].value
LastPointTime == CHOOSE ts \in PointTimes : \A u \in PointTimes : u <= ts

LevelNames == {"Critical", "Warning"}
ThresholdOf(level) ==
    IF level = "Critical" THEN breachArgs.thresholds.critical ELSE breachArgs.thresholds.warning
Configured(level) == ThresholdOf(level).defined

\* the point at ts satisfies the level's inclusive comparison
Breaching(level, ts) ==
    IF breachArgs.isHighBad THEN AtMost(ThresholdOf(level).value, ValueAt(ts))
    ELSE AtMost(ValueAt(ts), ThresholdOf(level).value)

Earlier(ts) == {u \in PointTimes : u < ts}
PreviousTime(ts) == CHOOSE u \in Earlier(ts) : \A v \in Earlier(ts) : v <= u

\* first points of the maximal runs of breaching points
RunStarts(level) ==
    {ts \in PointTimes :
        /\ Breaching(level, ts)
        /\ Earlier(ts) # {} => ~Breaching(level, PreviousTime(ts))}

ClearAfter(level, ts) == {u \in PointTimes : u > ts /\ ~Breaching(level, u)}

\* the run from ts on reaches the last point
RunIsOpen(level, ts) == ClearAfter(level, ts) = {}

\* where the run that starts at ts ends: the first following point that does
\* not breach, or the last point
RunEnd(level, ts) ==
    IF RunIsOpen(level, ts) THEN LastPointTime
    ELSE CHOOSE u \in ClearAfter(level, ts) : \A v \in ClearAfter(level, ts) : u <= v

\* the start of the run that reaches the last point
LastRunStart(level) ==
    CHOOSE ts \in RunStarts(level) : \A u \in RunStarts(level) : u <= ts

OfLevel(level) == SelectSeq(breaches, LAMBDA b : b.level = level)

\* C7: for each configured level the returned intervals are maximal runs of
\* breaching points (inclusive comparison): each starts at the first point of
\* a run and ends at the first following point that does not breach, every
\* run lasting a minute or more has its interval, the intervals do not
\* overlap and are in chronological order, every point in [startTime,
\* endTime) breaches and the point just before startTime does not.
IntervalsAreMaximalRuns ==
    breachPc = "returned" =>
        \A level \in LevelNames :
            LET B == OfLevel(level) IN
            /\ ~Configured(level) => B = <<>>
            /\ Configured(level) =>
                /\ \A k \in 1..Len(B) :
                      /\ B[k].startTime \in RunStarts(level)
                      /\ B[k].endTime = RunEnd(level, B[k].startTime)
                      /\ \A ts \in PointTimes :
                            (B[k].startTime <= ts /\ ts < B[k].endTime) => Breaching(level, ts)
                      /\ Earlier(B[k].startTime) # {} =>
                            ~Breaching(level, PreviousTime(B[k].startTime))
                /\ \A ts \in RunStarts(level) :
                      RunEnd(level, ts) - ts >= 60000 =>
                          \E k \in 1..Len(B) : B[k].startTime = ts
                /\ \A k \in 1..(Len(B) - 1) :
                      /\ B[k].startTime < B[k + 1].startTime
                      /\ B[k].endTime <= B[k + 1].startTime

\* C7 witness: low-is-bad, two Critical intervals, the second of them starting
\* at a point whose value equals the threshold, and a Warning interval.
IntervalsAreMaximalRunsWitness ==
    /\ breachPc = "returned"
    /\ ~breachArgs.isHighBad
    /\ Len(OfLevel("Critical")) = 2
    /\ OfLevel("Critical")[2].startValue = ThresholdOf("Critical").value
    /\ Len(OfLevel("Warning")) >= 1
    /\ timeSeriesData[1].timestamp > 0

OngoingWheneverLastPointBreaches ==
    (breachPc = "returned" /\ timeSeriesData # <<>>) =>
        \A level \in {l \in LevelNames : Configured(l)} :
            Breaching(level, LastPointTime) =>
                \E k \in 1..Len(breaches) :
                    breaches[k].level = level /\ breaches[k].isOngoing

\* C9 as amended: whenever the last point breaches a configured level and the
\* run that reaches it began a minute or more before it, an interval of that
\* level with isOngoing = true is returned (from the start of that run to the
\* last point).
OngoingWhenLastRunLastsAMinute ==
    (breachPc = "returned" /\ timeSeriesData # <<>>) =>
        \A level \in {l \in LevelNames : Configured(l)} :
            (/\ Breaching(level, LastPointTime)
             /\ LastPointTime - LastRunStart(level) >= 60000) =>
                \E k \in 1..Len(breaches) :
                    /\ breaches[k].level = level
                    /\ breaches[k].isOngoing
                    /\ breaches[k].startTime = LastRunStart(level)
                    /\ breaches[k].endTime = LastPointTime

\* C9 witness: the last point breaches both levels; the Warning run began
\* before the last point and has its ongoing interval, the Critical run began
\* at the last point.
OngoingWhenLastRunLastsAMinuteWitness ==
    /\ breachPc = "returned"
    /\ timeSeriesData # <<>>
    /\ Configured("Critical") /\ Configured("Warning")
    /\ Breaching("Critical", LastPointTime) /\ Breaching("Warning", LastPointTime)
    /\ LastRunStart("Critical") = LastPointTime
    /\ \E k \in 1..Len(breaches) : breaches[k].level = "Warning" /\ breaches[k].isOngoing

\* C10: an interval has isOngoing = true only if the last point breaches its
\* level; it then ends at the last point's timestamp and value, and it is the
\* only ongoing interval of its level and the last of them in time.
OngoingOnlyAtEnd ==
    (breachPc = "returned" /\ timeSeriesData # <<>>) =>
        \A level \in LevelNames :
            LET B == OfLevel(level) IN
            \A k \in 1..Len(B) :
                B[k].isOngoing =>
                    /\ Breaching(level, LastPointTime)
                    /\ B[k].endTime = LastPointTime
                    /\ B[k].endValue = ValueAt(LastPointTime)
                    /\ k = Len(B)
                    /\ \A j \in 1..Len(B) : j # k =>
                          ~B[j].isOngoing /\ B[j].startTime < B[k].startTime

\* C10 witness: a level with an interval ended inside the series followed by
\* an ongoing one, the series given in descending order.
OngoingOnlyAtEndWitness ==
    /\ breachPc = "returned"
    /\ Len(timeSeriesData) >= 2
    /\ timeSeriesData[1].timestamp > timeSeriesData[2].timestamp
    /\ \E level \in LevelNames :
          /\ Len(OfLevel(level)) = 2
          /\ ~OfLevel(level)[1].isOngoing
          /\ OfLevel(level)[2].isOngoing

\* the timestamps of the points an interval covers: from its start up to, but
\* not including, the point that ended it; up to the last point when ongoing
PointsOf(b) ==
    {ts \in PointTimes :
        b.startTime <= ts /\ (ts < b.endTime \/ (b.isOngoing /\ ts = b.endTime))}

\* value v is at least as bad as value w, in the direction of the call
AsBadAs(v, w) == IF breachArgs.isHighBad THEN AtMost(w, v) ELSE AtMost(v, w)

DeviationAt(level, ts) == Abs(Minus(ValueAt(ts), ThresholdOf(level).value))

\* C12: of every returned interval, startValue is the value at startTime,
\* peakValue the worst value over the points it covers (the maximum when high
\* is bad, the minimum when low is bad), peakTime the time of the earliest
\* point with that value, and maxDeviation the largest |value - threshold|
\* over those points, which is |peakValue - threshold|.
PeakTracking ==
    (breachPc = "returned" /\ timeSeriesData # <<>>) =>
        \A k \in 1..Len(breaches) :
            LET b == breaches[k]
                P == PointsOf(b)
            IN  /\ b.startValue = ValueAt(b.startTime)
                /\ \E ts \in P : ValueAt(ts) = b.peakValue
                /\ \A ts \in P : AsBadAs(b.peakValue, ValueAt(ts))
                /\ b.peakTime \in P
                /\ ValueAt(b.peakTime) = b.peakValue
                /\ \A ts \in P : ValueAt(ts) = b.peakValue => b.peakTime <= ts
                /\ \E ts \in P : SameNumber(b.maxDeviation, DeviationAt(b.level, ts))
                /\ \A ts \in P : AtMost(DeviationAt(b.level, ts), b.maxDeviation)
                /\ SameNumber(b.maxDeviation, Abs(Minus(b.peakValue, ThresholdOf(b.level).value)))

\* C12 witness: an interval ended inside the series whose peak comes after
\* its start and is attained again by a later point of the interval.
PeakTrackingWitness ==
    /\ breachPc = "returned"
    /\ \E k \in 1..Len(breaches) :
          LET b == breaches[k] IN
          /\ ~b.isOngoing
          /\ b.peakTime > b.startTime
          /\ b.peakValue # b.startValue
          /\ \E ts \in PointsOf(b) : ts > b.peakTime /\ ValueAt(ts) = b.peakValue

\* the length of a returned interval in milliseconds, and its bounds in minutes
LengthOf(b) == b.endTime - b.startTime
QuarterHour == 15 * 60000
HalfHour == 30 * 60000

RECURSIVE TotalLength(_)
TotalLength(s) == IF s = <<>> THEN 0 ELSE LengthOf(Head(s)) + TotalLength(Tail(s))

ShortOnes == {k \in 1..Len(breaches) : LengthOf(breaches[k]) < QuarterHour}
SustainedOnes == {k \in 1..Len(breaches) : LengthOf(breaches[k]) > HalfHour}

\* r is the fraction num / den (den > 0) rounded to the nearest integer, a
\* half rounded up
IsRounded(r, num, den) == (2 * r - 1) * den <= 2 * num /\ 2 * num < (2 * r + 1) * den

\* C13: the statistics are those of the whole returned list: totalBreaches is
\* its length and the sum of the two level counts, shortBreaches counts the
\* intervals under 15 minutes and sustainedBreaches those over 30 minutes,
\* avgDuration and longestBreach are the rounded mean and maximum duration
\* with avgDuration <= longestBreach, and every statistic is 0 when no
\* interval is returned.
StatsOfAllBreaches ==
    (breachPc = "returned" /\ timeSeriesData # <<>>) =>
        LET n == Len(breaches) IN
        /\ breachStats.totalBreaches = n
        /\ breachStats.criticalBreaches = Len(OfLevel("Critical"))
        /\ breachStats.warningBreaches = Len(OfLevel("Warning"))
        /\ breachStats.totalBreaches = breachStats.criticalBreaches + breachStats.warningBreaches
        /\ breachStats.shortBreaches = Cardinality(ShortOnes)
        /\ breachStats.sustainedBreaches = Cardinality(SustainedOnes)
        /\ breachStats.shortBreaches + breachStats.sustainedBreaches <= breachStats.totalBreaches
        /\ breachStats.avgDuration <= breachStats.longestBreach
        /\ n > 0 =>
              /\ IsRounded(breachStats.avgDuration, TotalLength(breaches), 60000 * n)
              /\ \E k \in 1..n :
                    /\ IsRounded(breachStats.longestBreach, LengthOf(breaches[k]), 60000)
                    /\ \A j \in 1..n : LengthOf(breaches[j]) <= LengthOf(breaches[k])
        /\ n = 0 =>
              /\ breachStats.avgDuration = 0
              /\ breachStats.longestBreach = 0
              /\ breachStats.shortBreaches = 0
              /\ breachStats.sustainedBreaches = 0
              /\ breachStats.maxDeviation = 0

\* C13 witness: intervals of both levels, one of them over 30 minutes, whose
\* mean duration is not a whole number of minutes and lies under the longest.
StatsOfAllBreachesWitness ==
    /\ breachPc = "returned"
    /\ breachStats # <<>>
    /\ breachStats.criticalBreaches >= 1
    /\ breachStats.warningBreaches >= 1
    /\ breachStats.sustainedBreaches >= 1
    /\ breachStats.avgDuration < breachStats.longestBreach
    /\ TotalLength(breaches) % (60000 * Len(breaches)) # 0

\* ... intervals under 15 minutes beside one of exactly 15 minutes
StatsShortWitness ==
    /\ breachPc = "returned"
    /\ breachStats # <<>>
    /\ breachStats.shortBreaches >= 1
    /\ breachStats.shortBreaches < breachStats.totalBreaches
    /\ \E k \in 1..Len(breaches) : LengthOf(breaches[k]) = QuarterHour

\* ... a series that is not empty and has no interval
StatsNoBreachWitness ==
    /\ breachPc = "returned"
    /\ timeSeriesData # <<>>
    /\ Configured("Critical")
    /\ breaches = <<>>

(***************************************************************************)
(* What the properties of an analysis run read.                            *)
(***************************************************************************)
Reported == analysisPc \in {"reported", "failed", "recommended"}

\* the place of returned interval k in the list sorted by startTime, equal
\* start times in the order returned
PlaceOf(k) ==
    1 + Cardinality({j \in 1..Len(breaches) :
                        \/ breaches[j].startTime < breaches[k].startTime
                        \/ breaches[j].startTime = breaches[k].startTime /\ j < k})

AtPlace(p) == breaches[CHOOSE k \in 1..Len(breaches) : PlaceOf(k) = p]

\* the integer nearest to a peak value
Nearest(x) == CHOOSE r \in -100..100 : IsRounded(r, x.num, x.den)

\* the entry at place p is a Warning whose next entry is a Critical with the
\* same rounded peak
Suppressed(p) ==
    /\ p < Len(breaches)
    /\ AtPlace(p).level = "Warning"
    /\ AtPlace(p + 1).level = "Critical"
    /\ Nearest(AtPlace(p).peakValue) = Nearest(AtPlace(p + 1).peakValue)

KeptPlaces == {p \in 1..Len(breaches) : ~Suppressed(p)}

DedupShown ==
    Reported =>
        /\ Len(dedupedBreaches) = Cardinality(KeptPlaces)
        /\ \A p \in KeptPlaces :
              dedupedBreaches[Cardinality({q \in KeptPlaces : q <= p})] = AtPlace(p)
        /\ breachStats # <<>> =>
              /\ breachStats.totalBreaches = Len(breaches)
              /\ breachStats.warningBreaches = Len(OfLevel("Warning"))
              /\ breachStats.criticalBreaches = Len(OfLevel("Critical"))

\* C11: the breaches shown are the returned intervals sorted by startTime
\* without every Warning whose next entry is a Critical of the same rounded
\* peak, in sorted order; showing them changes neither the returned list nor
\* the statistics, which count the suppressed Warning too.
DedupRule ==
    /\ []DedupShown
    /\ [][analysisPc = "combined" => (breaches' = breaches /\ breachStats' = breachStats)]_vars

\* C11 witness: a Warning is left out before a Critical whose peak differs
\* from its own but rounds to the same integer, another Warning is shown, and
\* the statistics count both.
DedupRuleWitness ==
    /\ Reported
    /\ breachStats # <<>>
    /\ breachStats.warningBreaches >= 2
    /\ \E p \in 1..Len(breaches) :
          Suppressed(p) /\ AtPlace(p).peakValue # AtPlace(p + 1).peakValue
    /\ \E p \in KeptPlaces : AtPlace(p).level = "Warning"
    /\ Len(dedupedBreaches) < breachStats.totalBreaches

\* ... a Warning that starts with a Critical of the same peak comes after it
\* in the sorted list and is shown
DedupSameStartWitness ==
    /\ Reported
    /\ \E p \in KeptPlaces :
          /\ p > 1
          /\ AtPlace(p).level = "Warning"
          /\ AtPlace(p - 1).level = "Critical"
          /\ AtPlace(p - 1).startTime = AtPlace(p).startTime
          /\ AtPlace(p - 1).peakValue = AtPlace(p).peakValue


(***************************************************************************)
(* What the properties of the recommendations read.                        *)
(***************************************************************************)
Recommended == analysisPc = "recommended"

\* volatilityScore > n, which no NaN score is
ScoreAbove(n) ==
    /\ volatilityScore.k = "number"
    /\ volatilityScore.x.num > n * volatilityScore.x.den

ScoreIs(n) == volatilityScore = Finite(Whole(n))

\* breachStats.sustainedBreaches > n, which nothing read from {} is
SustainedAbove(n) == breachStats # <<>> /\ breachStats.sustainedBreaches > n
TotalAbove(n) == breachStats # <<>> /\ breachStats.totalBreaches > n

ConservativeRule == ScoreAbove(7) \/ SustainedAbove(3)
BalancedRule == ScoreAbove(4) \/ TotalAbove(5)

\* C14: the strategy is Conservative if volatilityScore > 7 or
\* sustainedBreaches > 3, otherwise Balanced if volatilityScore > 4 or
\* totalBreaches > 5, otherwise Standard; it is exactly one of the three, and
\* the values 7, 3, 4 and 5 themselves do not trigger their rule.
StrategySelection ==
    Recommended =>
        /\ recommendations.strategy \in {Conservative, Balanced, Standard}
        /\ Cardinality({Conservative, Balanced, Standard}) = 3
        /\ recommendations.strategy = Conservative <=> ConservativeRule
        /\ recommendations.strategy = Balanced <=> ~ConservativeRule /\ BalancedRule
        /\ recommendations.strategy = Standard <=> ~ConservativeRule /\ ~BalancedRule
        /\ (breachStats # <<>> /\ ScoreIs(7) /\ breachStats.sustainedBreaches = 3)
              => recommendations.strategy = Balanced
        /\ (breachStats # <<>> /\ ScoreIs(4) /\ breachStats.sustainedBreaches <= 3
              /\ breachStats.totalBreaches = 5)
              => recommendations.strategy = Standard

\* C14 witness: with score 4, 3 sustained breaches and 5 breaches in all the
\* strategy is Standard.
StrategySelectionWitness ==
    /\ Recommended
    /\ breachStats # <<>>
    /\ ScoreIs(4)
    /\ breachStats.sustainedBreaches = 3
    /\ breachStats.totalBreaches = 5
    /\ recommendations.strategy = Standard

\* ... with score 7 and 3 sustained breaches it is Balanced, and a score
\* that is NaN triggers nothing
StrategyBoundaryWitness ==
    /\ Recommended
    /\ breachStats # <<>>
    /\ ScoreIs(7)
    /\ breachStats.sustainedBreaches = 3
    /\ recommendations.strategy = Balanced

StrategyFirstMatchWitness ==
    /\ Recommended
    /\ ConservativeRule
    /\ BalancedRule
    /\ ~ScoreAbove(7)
    /\ recommendations.strategy = Conservative


\* the critical threshold before it is rounded: a of b hundredths of the
\* maximum when that is larger than the percentile
RawCritical ==
    LET share == IF recommendations.strategy = Conservative THEN 70 ELSE 80
        ofMax == Frac(stats.max.num * share, stats.max.den * 100)
        percentile == IF recommendations.strategy = Conservative THEN stats.p95 ELSE stats.p99
    IN  IF recommendations.strategy = Standard THEN percentile
        ELSE IF percentile.num * ofMax.den < ofMax.num * percentile.den THEN ofMax
        ELSE percentile

\* hundredths of the critical threshold taken for warning and recovery
WarningShare ==
    IF recommendations.strategy = Conservative THEN 65
    ELSE IF recommendations.strategy = Balanced THEN 75 ELSE 80

RecoveryShare ==
    IF recommendations.strategy = Conservative THEN 85
    ELSE IF recommendations.strategy = Balanced THEN 90 ELSE 95

IsWholeNumber(v) == v.k = "number" /\ v.x.den = 1 /\ v.x.num \in Int

HighIsBadShareOfMaxWitness ==
    /\ Recommended
    /\ breachArgs.isHighBad
    /\ ~stats.empty
    /\ recommendations.strategy = Conservative
    /\ stats.max = Whole(-10)
    /\ recommendations.critical = Finite(Whole(-7))

HighIsBadStandardWitness ==
    /\ Recommended
    /\ breachArgs.isHighBad
    /\ ~stats.empty
    /\ recommendations.strategy = Standard
    /\ stats.p99 = Whole(35)
    /\ recommendations.warning = Finite(Whole(28))
    /\ recommendations.recovery = Finite(Whole(33))


IsNumber(v) == v.k = "number"

\* C16: generateRecommendations never returns a critical, warning or
\* recovery threshold that is NaN, for any summary it is given, the empty
\* one included (for which it has to signal InsufficientData instead).
NoNaNThresholds ==
    Recommended =>
        /\ IsNumber(recommendations.critical)
        /\ IsNumber(recommendations.warning)
        /\ IsNumber(recommendations.recovery)

\* C16, the case found: for the empty summary a recommendation is returned,
\* its strategy Standard and its three thresholds NaN.
EmptySummaryRecommended ==
    /\ Recommended
    /\ stats.empty
    /\ recommendations.strategy = Standard
    /\ recommendations.critical = NotANumber
    /\ recommendations.warning = NotANumber
    /\ recommendations.recovery = NotANumber


\* the monitor's configured critical threshold c and the recommended
\* critical r satisfy |c - r| / r > 0.5 (a quotient by 0 is Infinity, or NaN
\* for 0 / 0)
Diverges(c, r) ==
    /\ c.k = "number"
    /\ r.k = "number"
    /\ LET gap == IF c.x.num * r.x.den < r.x.num * c.x.den
                  THEN r.x.num * c.x.den - c.x.num * r.x.den
                  ELSE c.x.num * r.x.den - r.x.num * c.x.den
       IN  IF r.x.num = 0 THEN gap > 0
           ELSE r.x.num > 0 /\ 2 * gap * r.x.den > r.x.num * c.x.den * r.x.den

\* the callouts of the checklist in their order, each with its own condition
Checklist ==
    <<[callout |-> VolatilityInsight, holds |-> ScoreAbove(6)],
      [callout |-> NoBreachInsight, holds |-> breachStats # <<>> /\ breachStats.totalBreaches = 0],
      [callout |-> QuickInsight,
       holds |-> /\ TotalAbove(0)
                 /\ breachStats.shortBreaches > 2 * breachStats.sustainedBreaches],
      [callout |-> SustainedInsight, holds |-> SustainedAbove(0)],
      [callout |-> DeviationInsight, holds |-> breachStats # <<>> /\ breachStats.maxDeviation > 0],
      [callout |-> DivergenceInsight,
       holds |-> monitor.options.defined
                 /\ Diverges(monitor.options.critical, recommendations.critical)],
      [callout |-> NoiseInsight, holds |-> breachStats # <<>> /\ breachStats.shortBreaches > 5]>>

Due == SelectSeq(Checklist, LAMBDA rule : rule.holds)

\* C18: after the insight on the window, the insights are the callouts of the
\* checklist whose own condition holds, in the order volatility, no
\* breaches, quick against sustained, sustained, maximum deviation,
\* divergence, noise, whatever the other conditions are.
InsightsChecklist ==
    Recommended =>
        Tail(recommendations.insights) = [i \in 1..Len(Due) |-> Due[i].callout]

\* C18, the case found: more than 5 short breaches and no noise callout, the
\* monitor having no critical threshold in its options.
NoiseCalloutMissing ==
    /\ Recommended
    /\ breachStats # <<>>
    /\ breachStats.shortBreaches > 5
    /\ ~monitor.options.defined
    /\ \A i \in 1..Len(recommendations.insights) : recommendations.insights[i] # NoiseInsight

\* the same without the noise callout and for a threshold that is not 0: the
\* other six callouts are as the checklist has them
OtherCalloutsInOrder ==
    (Recommended /\ (monitor.options.defined => Truthy(monitor.options.critical))
       /\ ~stats.empty /\ breachArgs.isHighBad) =>
        SelectSeq(Tail(recommendations.insights), LAMBDA callout : callout # NoiseInsight)
            = LET due == SelectSeq(Due, LAMBDA rule : rule.callout # NoiseInsight)
              IN  [i \in 1..Len(due) |-> due[i].callout]


\* the critical threshold the monitor is configured with, as getMonitorConfig
\* returns it
ConfiguredCritical ==
    IF monitor.thresholds.critical.defined THEN Finite(monitor.thresholds.critical.value)
    ELSE Undefined

HasInsight(callout) ==
    \E i \in 1..Len(recommendations.insights) : recommendations.insights[i] = callout

\* C19: in an analysis run, when the monitor's configured critical threshold
\* c and the recommended critical r satisfy |c - r| / r > 0.5, the insights
\* include the divergence callout.
DivergenceReported ==
    (Recommended /\ Diverges(ConfiguredCritical, recommendations.critical))
        => HasInsight(DivergenceInsight)

\* C19, the case found: the monitor is configured with critical 4, the
\* recommended critical is 1, and the insights have no divergence callout.
DivergenceUnreported ==
    /\ Recommended
    /\ ConfiguredCritical = Finite(Half(8))
    /\ recommendations.critical = Finite(Whole(1))
    /\ ~HasInsight(DivergenceInsight)

\* no analysis run reports a divergence, the configuration object having no
\* options
NoRunReportsDivergence ==
    Recommended => ~monitor.options.defined /\ ~HasInsight(DivergenceInsight)


\* combineHighResData has returned for a series that is not empty
Summarised == analysisPc # "ready" /\ Len(timeSeriesData) > 0

\* the mean of the series, not rounded
MeanOfSeries ==
    LET total == SumOf([i \in 1..Len(timeSeriesData) |-> timeSeriesData[i].value])
    IN  Frac(total.num, total.den * Len(timeSeriesData))

\* C17: for every series that is not empty (a single point, an all-zero
\* series and a series of negative mean included) the volatility score is an
\* integer in 0..10, and it is 10 whenever the mean is 0.
VolatilityInRange ==
    Summarised =>
        /\ IsWholeNumber(volatilityScore)
        /\ volatilityScore.x.num \in 0..10
        /\ stats.mean = Whole(0) => volatilityScore = Finite(Whole(10))

\* C17, the cases found: a single point gives NaN ...
VolatilityOfSinglePoint ==
    /\ Summarised
    /\ Len(timeSeriesData) = 1
    /\ volatilityScore = NotANumber

\* ... an all-zero series gives NaN, 0 / 0 ...
VolatilityOfZeros ==
    /\ Summarised
    /\ Len(timeSeriesData) > 1
    /\ \A i \in 1..Len(timeSeriesData) : timeSeriesData[i].value = Half(0)
    /\ volatilityScore = NotANumber

\* ... a series of mean -1 and deviation 1 gives -10, and a series of mean
\* -0.25, which rounds to -0, gives -Infinity
VolatilityOfNegativeMean ==
    /\ Summarised
    /\ stats.mean = Whole(-1)
    /\ stats.std = Finite(Whole(1))
    /\ volatilityScore = Finite(Whole(-10))

VolatilityOfMinusZeroMean ==
    /\ Summarised
    /\ MeanOfSeries = Frac(-1, 4)
    /\ stats.mean = Whole(0)
    /\ volatilityScore = MinusInfinity

\* where the claim does hold: at least two points and a rounded mean above
\* 0, and a mean of 0 that is not negative before rounding with a deviation
\* that is not 0
VolatilityOfPositiveMean ==
    Summarised =>
        /\ (Len(timeSeriesData) > 1 /\ stats.mean.num > 0) =>
              (IsWholeNumber(volatilityScore) /\ volatilityScore.x.num \in 0..10)
        /\ (Len(timeSeriesData) > 1 /\ stats.mean = Whole(0) /\ MeanOfSeries.num >= 0
              /\ stats.std # Finite(Whole(0))) => volatilityScore = Finite(Whole(10))


(***************************************************************************)
(* What the properties of the run on three excursions read.                *)
(***************************************************************************)
AtOrAbove(i, line) ==
    timeSeriesData[i].value.num >= line * timeSeriesData[i].value.den

\* the points where an excursion at or above 600 begins
ExcursionStarts ==
    {i \in 1..Len(timeSeriesData) :
        AtOrAbove(i, 600) /\ (i = 1 \/ ~AtOrAbove(i - 1, 600))}

Ends(i) == {j \in (i + 1)..Len(timeSeriesData) : ~AtOrAbove(j, 600)}

\* the minutes from the first point of the excursion beginning at i to the
\* first point under 600 after it
LastingOf(i) ==
    LET j == CHOOSE j \in Ends(i) : \A other \in Ends(i) : j <= other
    IN  (timeSeriesData[j].timestamp - timeSeriesData[i].timestamp) \div 60000

\* a series on the 5-minute grid, values between 50 and 1500, with exactly
\* three excursions at or above 600, of 60, 65 and 60 minutes, analysed with
\* the critical threshold 600 alone and high values bad
ThreeExcursions ==
    /\ \A i \in 1..Len(timeSeriesData) :
          /\ timeSeriesData[i].timestamp = (i - 1) * 5 * 60000
          /\ AtOrAbove(i, 50)
          /\ ~AtOrAbove(i, 1501)
    /\ Cardinality(ExcursionStarts) = 3
    /\ \A i \in ExcursionStarts : Ends(i) # {}
    /\ \E a, b, c \in ExcursionStarts :
          /\ a < b /\ b < c
          /\ LastingOf(a) = 60 /\ LastingOf(b) = 65 /\ LastingOf(c) = 60
    /\ breachArgs.isHighBad
    /\ breachArgs.thresholds.critical = [defined |-> TRUE, value |-> Whole(600)]
    /\ ~breachArgs.thresholds.warning.defined

ThreeSustained ==
    /\ Len(breaches) = 3
    /\ \A i \in 1..3 : breaches[i].level = "Critical"
    /\ breachStats.sustainedBreaches = 3
    /\ breachStats.shortBreaches = 0

\* C15 as stated: for such a series the analysis yields exactly 3 Critical
\* intervals, sustainedBreaches = 3, shortBreaches = 0 and the strategy
\* Conservative.
ExcursionsConservative ==
    (Recommended /\ ThreeExcursions) =>
        /\ ThreeSustained
        /\ recommendations.strategy = Conservative

\* C15, amended: for such a series the analysis yields exactly 3 Critical
\* intervals, sustainedBreaches = 3 and shortBreaches = 0; the strategy is
\* Conservative only when the volatility score is above 7, Balanced when it
\* is above 4 and not above 7, and Standard otherwise.
ExcursionsByVolatility ==
    (Recommended /\ ThreeExcursions) =>
        /\ ThreeSustained
        /\ recommendations.strategy =
              IF ScoreAbove(7) THEN Conservative
              ELSE IF ScoreAbove(4) THEN Balanced ELSE Standard

\* C15 witness: three excursions of 60, 65 and 60 minutes, 3 sustained
\* Critical intervals, and the strategy Standard at a volatility score of 0.
ExcursionsByVolatilityWitness ==
    /\ Recommended
    /\ ThreeExcursions
    /\ ThreeSustained
    /\ breaches[1].duration = Frac(60 * 60000, 60000)
    /\ breaches[2].duration = Frac(65 * 60000, 60000)
    /\ ScoreIs(0)
    /\ recommendations.strategy = Standard

\* ... Balanced at a score above 4, Conservative at a score above 7
ExcursionsBalancedWitness ==
    /\ Recommended
    /\ ThreeExcursions
    /\ ThreeSustained
    /\ ScoreAbove(4)
    /\ recommendations.strategy = Balanced

ExcursionsConservativeWitness ==
    /\ Recommended
    /\ ThreeExcursions
    /\ ThreeSustained
    /\ ScoreAbove(7)
    /\ recommendations.strategy = Conservative


\* the smaller of two numbers kept as fractions
LesserOf(a, b) == IF a.num * b.den <= b.num * a.den THEN a ELSE b

\* the critical threshold of the low-is-bad path before any rounding
RawLowCritical ==
    IF recommendations.strategy = Conservative
    THEN LesserOf(Frac(stats.mean.num * 3, stats.mean.den * 10),
                  Frac(stats.min.num * 15, stats.min.den * 10))
    ELSE IF recommendations.strategy = Balanced
    THEN LesserOf(Frac(stats.mean.num * 4, stats.mean.den * 10),
                  Frac(stats.min.num * 13, stats.min.den * 10))
    ELSE Frac(stats.mean.num * 5, stats.mean.den * 10)

\* hundredths of the mean taken for the warning threshold
LowWarningShare ==
    IF recommendations.strategy = Conservative THEN 60
    ELSE IF recommendations.strategy = Balanced THEN 70 ELSE 75

LowIsBadCase == Recommended /\ ~breachArgs.isHighBad /\ ~stats.empty

\* C21: when low is bad, critical is min(mean * 0.3, min * 1.5) under
\* Conservative, min(mean * 0.4, min * 1.3) under Balanced and mean * 0.5
\* under Standard, warning is mean * 0.6 | 0.7 | 0.75 and recovery is
\* critical * 1.1, each rounded only at output: recovery is the rounding of
\* 1.1 times the critical that is not yet rounded.
LowIsBadFormulas ==
    LowIsBadCase =>
        /\ IsWholeNumber(recommendations.critical)
        /\ IsWholeNumber(recommendations.warning)
        /\ IsWholeNumber(recommendations.recovery)
        /\ IsRounded(recommendations.critical.x.num, RawLowCritical.num, RawLowCritical.den)
        /\ IsRounded(recommendations.warning.x.num,
                     stats.mean.num * LowWarningShare, stats.mean.den * 100)
        /\ IsRounded(recommendations.recovery.x.num,
                     RawLowCritical.num * 11, RawLowCritical.den * 10)

\* C21, the case found: Standard with mean 11: critical is 5.5 and returned
\* as 6, recovery is returned as 7, the rounding of 6.6, while 1.1 * 5.5
\* rounds to 6.
LowRecoveryFromRoundedCritical ==
    /\ LowIsBadCase
    /\ recommendations.strategy = Standard
    /\ stats.mean = Whole(11)
    /\ recommendations.critical = Finite(Whole(6))
    /\ recommendations.recovery = Finite(Whole(7))

\* what does hold: critical and warning are as stated, and recovery is the
\* rounding of 1.1 times the rounded critical
LowIsBadAsComputed ==
    LowIsBadCase =>
        /\ IsRounded(recommendations.critical.x.num, RawLowCritical.num, RawLowCritical.den)
        /\ IsRounded(recommendations.warning.x.num,
                     stats.mean.num * LowWarningShare, stats.mean.den * 100)
        /\ IsRounded(recommendations.recovery.x.num, recommendations.critical.x.num * 11, 10)


\* breachStats.avgDuration > n, which nothing read from {} is
AvgDurationAbove(n) == breachStats # <<>> /\ breachStats.avgDuration > n

WindowIs(window, delay) ==
    /\ recommendations.recommended_window = window
    /\ recommendations.recommended_delay = delay

\* C22: when high is bad the window is avg(last_15m) with delay 900 if
\* avgDuration > 60, otherwise avg(last_10m) with delay 600 if
\* avgDuration > 30 or sustainedBreaches > 0, otherwise avg(last_5m) with
\* delay 300; when low is bad it is avg(last_15m) with delay 600 whatever
\* the breach statistics.
WindowSelection ==
    Recommended =>
        IF ~breachArgs.isHighBad THEN WindowIs("avg(last_15m)", 600)
        ELSE IF AvgDurationAbove(60) THEN WindowIs("avg(last_15m)", 900)
        ELSE IF AvgDurationAbove(30) \/ SustainedAbove(0) THEN WindowIs("avg(last_10m)", 600)
        ELSE WindowIs("avg(last_5m)", 300)

\* C22: an average of exactly 60 minutes gets the 10-minute window
WindowAtSixtyMinutes ==
    /\ Recommended /\ breachArgs.isHighBad
    /\ breachStats # <<>> /\ breachStats.avgDuration = 60
    /\ WindowIs("avg(last_10m)", 600)

WindowLongWitness ==
    Recommended /\ breachArgs.isHighBad /\ AvgDurationAbove(60) /\ WindowIs("avg(last_15m)", 900)

WindowShortWitness ==
    /\ Recommended /\ breachArgs.isHighBad
    /\ breachStats # <<>> /\ breachStats.avgDuration = 30 /\ breachStats.sustainedBreaches = 0
    /\ WindowIs("avg(last_5m)", 300)

WindowLowIsBadWitness ==
    Recommended /\ ~breachArgs.isHighBad /\ AvgDurationAbove(60) /\ WindowIs("avg(last_15m)", 600)


\* how strict a strategy is: Standard < Balanced < Conservative
Strictness(strategy) ==
    IF strategy = Conservative THEN 3 ELSE IF strategy = Balanced THEN 2 ELSE 1

\* the scores 0..10 that are not below the score of this run
ScoresFrom(score) == {higher \in 0..10 : higher * score.x.den >= score.x.num}

ScoreInRange ==
    /\ volatilityScore.k = "number"
    /\ volatilityScore.x.num >= 0
    /\ volatilityScore.x.num <= 10 * volatilityScore.x.den

\* C25: with the breach statistics held fixed the strategy is monotone in
\* volatilityScore over 0..10 in the order Standard < Balanced <
\* Conservative: no score at or above the one of this run selects a less
\* strict strategy than this run got.
StrategyMonotone ==
    (Recommended /\ ScoreInRange) =>
        \A higher \in ScoresFrom(volatilityScore) :
            Strictness(Strategy(Finite(Whole(higher)), breachStats))
                >= Strictness(recommendations.strategy)

\* C25: a run with score 4 and nothing else pressing got Standard, while
\* the scores 5 and 9 with the same breach statistics select Balanced and
\* Conservative
StrategyRisesWithScore ==
    /\ Recommended /\ ScoreIs(4)
    /\ recommendations.strategy = Standard
    /\ Strategy(Finite(Whole(5)), breachStats) = Balanced
    /\ Strategy(Finite(Whole(9)), breachStats) = Conservative

\* C25: the strategy of a run with score 8 is Conservative, as it is for 10
StrategyStaysConservative ==
    /\ Recommended /\ ScoreIs(8)
    /\ recommendations.strategy = Conservative
    /\ Strategy(Finite(Whole(10)), breachStats) = Conservative


\* a summary of at least one value, none of them negative
NonNegativeSummary == ~stats.empty /\ stats.min.num >= 0

\* a <= b <= c for three thresholds that are numbers
InOrder(a, b, c) ==
    /\ IsNumber(a) /\ IsNumber(b) /\ IsNumber(c)
    /\ AtMost(a.x, b.x)
    /\ AtMost(b.x, c.x)

\* C30: for a non-empty summary of non-negative values and every strategy,
\* recovery lies between warning and critical: warning <= recovery <=
\* critical when high is bad, critical <= recovery <= warning when low is
\* bad.
RecoveryBetween ==
    (Recommended /\ NonNegativeSummary) =>
        IF breachArgs.isHighBad
        THEN InOrder(recommendations.warning, recommendations.recovery, recommendations.critical)
        ELSE InOrder(recommendations.critical, recommendations.recovery, recommendations.warning)

\* C30: low is bad, and the three thresholds differ
RecoveryBetweenLowWitness ==
    /\ Recommended /\ NonNegativeSummary /\ ~breachArgs.isHighBad
    /\ Less(recommendations.critical.x, recommendations.recovery.x)
    /\ Less(recommendations.recovery.x, recommendations.warning.x)

\* C30: high is bad, and the three thresholds differ
RecoveryBetweenHighWitness ==
    /\ Recommended /\ NonNegativeSummary /\ breachArgs.isHighBad
    /\ Less(recommendations.warning.x, recommendations.recovery.x)
    /\ Less(recommendations.recovery.x, recommendations.critical.x)

\* C30: the three thresholds fall on one integer when the mean is 1
RecoveryBetweenTiedWitness ==
    /\ Recommended /\ NonNegativeSummary /\ ~breachArgs.isHighBad
    /\ stats.mean = Whole(1)
    /\ recommendations.strategy = Standard
    /\ recommendations.critical = recommendations.warning

\* outside the claim: with a negative mean the order is reversed
RecoveryOutsideNegative ==
    /\ Recommended /\ ~stats.empty /\ stats.min.num < 0 /\ breachArgs.isHighBad
    /\ Less(recommendations.critical.x, recommendations.recovery.x)


\* the sample variance of the series, not rounded
VarianceOfSeries ==
    LET squares == SumOfSquares([i \in 1..Len(timeSeriesData) |-> timeSeriesData[i].value])
    IN  Frac(squares.num, squares.den * (Len(timeSeriesData) - 1))

\* 10 * std / mean >= halves / 2 for the std and the mean that are not
\* rounded, the mean being positive: 400 * variance >= halves^2 * mean^2
RatioAtLeast(halves) ==
    400 * VarianceOfSeries.num * MeanOfSeries.den * MeanOfSeries.den
        >= halves * halves * MeanOfSeries.num * MeanOfSeries.num * VarianceOfSeries.den

\* Math.min(10, Math.round(10 * std / mean)) of the unrounded std and mean
UnroundedScoreIs(score) ==
    /\ score \in 0..10
    /\ score > 0 => RatioAtLeast(2 * score - 1)
    /\ score < 10 => ~RatioAtLeast(2 * score + 1)

SeveralPointsOfPositiveMean ==
    Summarised /\ Len(timeSeriesData) > 1 /\ MeanOfSeries.num > 0

\* C24: the heuristics use the unrounded mean and standard deviation: the
\* volatility score of a series equals the score computed from its
\* unrounded std / mean.
VolatilityFromUnrounded ==
    SeveralPointsOfPositiveMean =>
        /\ IsWholeNumber(volatilityScore)
        /\ UnroundedScoreIs(volatilityScore.x.num)

\* C24, the case found: the values 0.5 and 1 have mean 0.75 and std 0.354,
\* a ratio of 0.47 and so a score of 5; the std is rounded to 0 and the
\* mean to 1, and the score is 0, as for the constant series 1, 1
VolatilityFromRounded ==
    /\ SeveralPointsOfPositiveMean
    /\ Len(timeSeriesData) = 2
    /\ MeanOfSeries = Frac(3, 4)
    /\ stats.mean = Whole(1) /\ stats.std = Finite(Whole(0))
    /\ volatilityScore = Finite(Whole(0))
    /\ UnroundedScoreIs(5)

\* what does hold: the score is the one of the rounded std over the
\* rounded mean, the only ones the summary has
VolatilityFromSummary ==
    (SeveralPointsOfPositiveMean /\ stats.mean.num > 0) =>
        /\ DOMAIN stats = DOMAIN EmptyStats
        /\ volatilityScore.x.num * 2 * stats.mean.num <= 20 * stats.std.x.num + stats.mean.num
        /\ volatilityScore.x.num < 10 =>
              20 * stats.std.x.num < (2 * volatilityScore.x.num + 1) * stats.mean.num


\* the returned intervals w and c are a Warning and a Critical that start at
\* the same sample and have the same rounded peak
CrossedTogether(w, c) ==
    /\ breaches[w].level = "Warning"
    /\ breaches[c].level = "Critical"
    /\ breaches[w].startTime = breaches[c].startTime
    /\ Nearest(breaches[w].peakValue) = Nearest(breaches[c].peakValue)

Shown(k) == \E i \in 1..Len(dedupedBreaches) : dedupedBreaches[i] = breaches[k]

\* C27: when a Warning and a Critical interval have the same startTime and
\* the same rounded peak, the breaches shown contain the Critical and not
\* the Warning.
CrossedTogetherShowsCritical ==
    Reported =>
        \A w, c \in 1..Len(breaches) :
            CrossedTogether(w, c) => (Shown(c) /\ ~Shown(w))

\* C27, the case found: the Critical is returned before the Warning, the
\* sort keeps it there, the entry after the Warning is no Critical, and both
\* are shown
CrossedTogetherShowsBoth ==
    /\ Reported
    /\ Len(breaches) = 2
    /\ CrossedTogether(2, 1)
    /\ breaches[1].endTime = breaches[2].endTime
    /\ dedupedBreaches = breaches

\* what does hold: the Critical is shown, and the Warning is too unless the
\* entry after it is a later Critical of the same rounded peak
CrossedTogetherAsSorted ==
    Reported =>
        \A w, c \in 1..Len(breaches) :
            CrossedTogether(w, c) =>
                /\ Shown(c)
                /\ PlaceOf(w) = PlaceOf(c) + 1
                /\ Shown(w) <=> ~Suppressed(PlaceOf(w))


\* both thresholds are configured and the Warning one is no more extreme
\* than the Critical one
NestedThresholds ==
    /\ Configured("Critical") /\ Configured("Warning")
    /\ IF breachArgs.isHighBad
       THEN AtMost(ThresholdOf("Warning").value, ThresholdOf("Critical").value)
       ELSE AtMost(ThresholdOf("Critical").value, ThresholdOf("Warning").value)

\* the Warning interval w covers the Critical interval c
Covers(w, c) ==
    /\ w.startTime <= c.startTime
    /\ w.endTime >= c.endTime
    /\ c.isOngoing => w.isOngoing

\* C28: with both thresholds configured and the Warning one no more extreme
\* than the Critical one, every returned Critical interval lies inside a
\* returned Warning interval, which is ongoing whenever the Critical is;
\* hence warningBreaches >= 1 whenever criticalBreaches >= 1.
CriticalInsideWarning ==
    (breachPc = "returned" /\ NestedThresholds) =>
        /\ \A k \in 1..Len(OfLevel("Critical")) :
              \E j \in 1..Len(OfLevel("Warning")) :
                  Covers(OfLevel("Warning")[j], OfLevel("Critical")[k])
        /\ (breachStats # <<>> /\ breachStats.criticalBreaches >= 1) =>
              breachStats.warningBreaches >= 1

\* C28: one Warning interval holds two Critical ones and outlasts the
\* second, which is not ongoing while the Warning is
CriticalInsideWarningWitness ==
    /\ breachPc = "returned" /\ NestedThresholds
    /\ Len(OfLevel("Critical")) = 2
    /\ Len(OfLevel("Warning")) = 1
    /\ OfLevel("Warning")[1].startTime < OfLevel("Critical")[2].startTime
    /\ OfLevel("Warning")[1].endTime > OfLevel("Critical")[2].endTime
    /\ OfLevel("Warning")[1].isOngoing /\ ~OfLevel("Critical")[2].isOngoing

\* C28: an ongoing Critical interval inside an ongoing Warning one, when low
\* is bad
CriticalInsideWarningOngoing ==
    /\ breachPc = "returned" /\ NestedThresholds /\ ~breachArgs.isHighBad
    /\ ThresholdOf("Warning").value # ThresholdOf("Critical").value
    /\ \E k \in 1..Len(OfLevel("Critical")) : OfLevel("Critical")[k].isOngoing
    /\ \E j \in 1..Len(OfLevel("Warning")) : OfLevel("Warning")[j].isOngoing

\* outside the claim: with the Warning threshold beyond the Critical one a
\* Critical interval has no Warning interval around it
CriticalOutsideWarning ==
    /\ breachPc = "returned" /\ ~NestedThresholds
    /\ Configured("Critical") /\ Configured("Warning")
    /\ Len(OfLevel("Critical")) >= 1
    /\ Len(OfLevel("Warning")) = 0


\* the samples at the earliest timestamp of the list
EarliestSamples == {i \in 1..Len(Items) : Items[i].timestamp = FirstTime}

Discarded == aggPc = "returned" /\ DiscardArg /\ Items # <<>>

\* C29: with discardIncomplete = true every window starts at or after the
\* first timestamp and is left-exclusive, so that each emitted point is the
\* aggregate of samples none of which is at the earliest timestamp, and the
\* output is empty whenever last - first < windowSizeMs, in particular for
\* a single sample.
EarliestSampleLeftOut ==
    Discarded =>
        /\ \A j \in 1..Len(rollingData) :
              LET point == rollingData[j]
                  I == NumbersIn(point.timestamp) \ EarliestSamples
              IN  /\ point.windowStart >= FirstTime
                  /\ \A i \in EarliestSamples : Items[i].timestamp <= point.windowStart
                  /\ point.dataPointsInWindow = Cardinality(I)
                  /\ IsAggregateOf(point.value, KindArg, I)
        /\ LastTime - FirstTime < WindowArg => rollingData = <<>>
        /\ Len(Items) = 1 => rollingData = <<>>

\* C29: the first window starts exactly at the first timestamp, where a
\* sample with a number value is, and the point emitted for it counts only
\* the later samples
EarliestSampleLeftOutWitness ==
    /\ Discarded
    /\ rollingData # <<>>
    /\ rollingData[1].windowStart = FirstTime
    /\ \E i \in EarliestSamples : Items[i].value.k = "number"
    /\ rollingData[1].dataPointsInWindow < Cardinality({i \in 1..Len(Items) : Items[i].value.k = "number"})

\* C29: samples one time unit apart and a window of two give nothing
ShortSeriesEmpty ==
    /\ Discarded
    /\ Len(Items) >= 2
    /\ FirstTime < LastTime
    /\ LastTime - FirstTime < WindowArg
    /\ rollingData = <<>>

\* outside the claim: without discarding the earliest sample is aggregated
EarliestSampleKept ==
    /\ aggPc = "returned" /\ ~DiscardArg
    /\ rollingData # <<>>
    /\ rollingData[1].timestamp = FirstTime


(***************************************************************************)
(* What the properties of the summary statistics read.                     *)
(***************************************************************************)
ListSummarised == analysisPc = "summarised" /\ Len(timeSeriesData) > 0

ListIndexes == 1..Len(timeSeriesData)
ListValue(i) == timeSeriesData[i].value

\* v is the element at zero-based index k of the ascending sort: at most k
\* values are below it and more than k are not above it
AtSortedIndex(v, k) ==
    /\ \E i \in ListIndexes : ListValue(i) = v
    /\ Cardinality({i \in ListIndexes : Less(ListValue(i), v)}) <= k
    /\ Cardinality({i \in ListIndexes : AtMost(ListValue(i), v)}) > k

\* floor(n * N / 100)
PercentileIndex(percent) == (Len(timeSeriesData) * percent) \div 100

PercentileOf(percent) ==
    CASE percent = 5 -> stats.p05
      [] percent = 10 -> stats.p10
      [] percent = 50 -> stats.p50
      [] percent = 90 -> stats.p90
      [] percent = 95 -> stats.p95
      [] percent = 99 -> stats.p99

\* C23: for every non-empty list of length n each percentile pN (p05, p10,
\* p50, p90, p95, p99) is the element at zero-based index floor(n * N / 100)
\* of the ascending sort, with no interpolation; the index is within
\* 0..n-1, and for the values 1..100 p95 is 96.
PercentileByIndex ==
    ListSummarised =>
        /\ \A percent \in {5, 10, 50, 90, 95, 99} :
              /\ PercentileIndex(percent) \in 0..(Len(timeSeriesData) - 1)
              /\ AtSortedIndex(PercentileOf(percent), PercentileIndex(percent))
        /\ (Len(timeSeriesData) = 100 /\ \A v \in 1..100 : \E i \in ListIndexes : ListValue(i) = Whole(v))
              => stats.p95 = Whole(96)

\* C23: the values 1..100, given out of order, have p95 = 96 and p99 = 100
PercentileOfHundred ==
    /\ ListSummarised
    /\ Len(timeSeriesData) = 100
    /\ ListValue(1) = Whole(51)
    /\ \A v \in 1..100 : \E i \in ListIndexes : ListValue(i) = Whole(v)
    /\ stats.p95 = Whole(96)
    /\ stats.p99 = Whole(100)
    /\ stats.p05 = Whole(6)

\* C23: a list of three values with a tie: p50 is the second of the sort, no
\* value between two of the list
PercentileWithTies ==
    /\ ListSummarised
    /\ Len(timeSeriesData) = 3
    /\ ListValue(1) = Whole(2) /\ ListValue(2) = Half(1) /\ ListValue(3) = Whole(2)
    /\ stats.p05 = Half(1)
    /\ stats.p50 = Whole(2)

\* C23: of a single value every percentile is that value
PercentileOfOne ==
    /\ ListSummarised
    /\ Len(timeSeriesData) = 1
    /\ \A percent \in {5, 10, 50, 90, 95, 99} : PercentileOf(percent) = ListValue(1)


(***************************************************************************)
(* What the properties of the query parsers read.                          *)
(***************************************************************************)
\* the aggregation words, numbers and units of the queries the claim is about
ClaimedWords == {<<"a", "v", "g">>, <<"s", "u", "m">>, <<"m", "i", "n">>, <<"m", "a", "x">>}
ClaimedNumbers ==
    {[text |-> <<"1">>, n |-> 1], [text |-> <<"5">>, n |-> 5],
     [text |-> <<"1", "5">>, n |-> 15], [text |-> <<"3", "0">>, n |-> 30],
     [text |-> <<"0", "2">>, n |-> 2]}
UnitLength ==
    [unit \in {"s", "m", "h", "d"} |->
        IF unit = "s" THEN 1000 ELSE IF unit = "m" THEN 60000
        ELSE IF unit = "h" THEN 3600000 ELSE 86400000]

\* the query is <word>(last_<N><unit>):x
IsWindowQuery(word, number, unit) ==
    /\ ~query.isNull
    /\ query.text = word \o <<"(", "l", "a", "s", "t", "_">> \o number.text
                         \o <<unit, ")", ":", "x">>

\* the query has neither a window nor an aggregation word, or is null
Unresolvable ==
    \/ query.isNull
    \/ query.text \in {<<>>, <<":", "x">>}

\* the names calculateRollingAggregation accepts, spelled out
AcceptedKinds ==
    {<<"a", "v", "g">>, <<"s", "u", "m">>, <<"m", "i", "n">>, <<"m", "a", "x">>,
     <<"c", "o", "u", "n", "t">>}

Parsed == parsePc = "returned"
Extracted == rollupPc # "ready"

\* kind and window in milliseconds as parseMonitorQuery returned them
ParsedAs(kind, ms) == queryInfo.aggregation = kind /\ queryInfo.timeWindowMs = ms

\* kind and window as the analysis path takes them from
\* extractRollupAndInterval
ExtractedAs(kind, ms) ==
    /\ rollupPc = "returned"
    /\ rollupInfo.aggFunction = kind
    /\ rollupInfo.timeWindowSeconds * 1000 = ms

\* C26: for a query <agg>(last_<N><unit>):... with agg in avg, sum, min,
\* max and unit in s, m, h, d, parseMonitorQuery and
\* extractRollupAndInterval both return the kind agg and a window of N
\* times the unit length; for a query with no window and no aggregation
\* word, and for null, they return avg and one hour; the kind returned is
\* always one the aggregator accepts.
QueryParsersAgree ==
    /\ \A word \in ClaimedWords, number \in ClaimedNumbers, unit \in DOMAIN UnitLength :
          IsWindowQuery(word, number, unit) =>
              /\ Parsed => ParsedAs(word, number.n * UnitLength[unit])
              /\ Extracted => ExtractedAs(word, number.n * UnitLength[unit])
    /\ Unresolvable =>
          /\ Parsed => ParsedAs(<<"a", "v", "g">>, 3600000)
          /\ Extracted => ExtractedAs(<<"a", "v", "g">>, 3600000)
    /\ Parsed => queryInfo.aggregation \in AcceptedKinds
    /\ Extracted => (rollupPc = "returned" /\ rollupInfo.aggFunction \in AcceptedKinds)

\* C26, the cases found: avg(last_30s):x is a window of 30 seconds for
\* extractRollupAndInterval and of one hour for parseMonitorQuery ...
SecondsParsedAsHour ==
    /\ IsWindowQuery(<<"a", "v", "g">>, [text |-> <<"3", "0">>, n |-> 30], "s")
    /\ Parsed /\ ParsedAs(<<"a", "v", "g">>, 3600000)
    /\ Extracted /\ ExtractedAs(<<"a", "v", "g">>, 30000)

\* ... a query without a word is sum for extractRollupAndInterval ...
NoWordExtractedAsSum ==
    /\ ~query.isNull /\ query.text = <<":", "x">>
    /\ Parsed /\ ParsedAs(<<"a", "v", "g">>, 3600000)
    /\ Extracted /\ ExtractedAs(<<"s", "u", "m">>, 3600000)

\* ... a null query makes extractRollupAndInterval throw ...
NullQueryThrows ==
    /\ query.isNull
    /\ Parsed /\ ParsedAs(<<"a", "v", "g">>, 3600000)
    /\ rollupPc = "threw"

\* ... and the word of change(avg(last_5m),last_1h):x is returned as the kind
UnacceptedKindExtracted ==
    /\ rollupPc = "returned"
    /\ rollupInfo.aggFunction = <<"c", "h", "a", "n", "g", "e">>
    /\ rollupInfo.aggFunction \notin AcceptedKinds
    /\ Parsed /\ ParsedAs(<<"a", "v", "g">>, 300000)

\* what does hold: with the units m, h and d both parsers return the kind
\* and the window of the query, and parseMonitorQuery never returns a kind
\* the aggregator refuses
MinutesHoursDaysAgree ==
    /\ \A word \in ClaimedWords, number \in ClaimedNumbers, unit \in {"m", "h", "d"} :
          IsWindowQuery(word, number, unit) =>
              /\ Parsed => ParsedAs(word, number.n * UnitLength[unit])
              /\ Extracted => ExtractedAs(word, number.n * UnitLength[unit])
    /\ \A word \in ClaimedWords, number \in ClaimedNumbers :
          IsWindowQuery(word, number, "s") =>
              /\ Parsed => ParsedAs(word, 3600000)
              /\ Extracted => ExtractedAs(word, number.n * 1000)
    /\ Parsed => queryInfo.aggregation \in AcceptedKinds

MinutesHoursDaysWitness ==
    /\ IsWindowQuery(<<"m", "a", "x">>, [text |-> <<"1", "5">>, n |-> 15], "d")
    /\ Parsed /\ ParsedAs(<<"m", "a", "x">>, 1296000000)
    /\ Extracted /\ ExtractedAs(<<"m", "a", "x">>, 1296000000)
    /\ queryInfo.timeWindow = <<"1", "5", "d">>
    /\ rollupInfo.rollupString =
          <<".", "r", "o", "l", "l", "u", "p", "(", "m", "a", "x", ",", " ",
            "1", "2", "9", "6", "0", "0", "0", ")">>

====
